---- MODULE Spec2Model ----
(***************************************************************************)
(* A model of neilplot's axis / bounds / tick computation engine           *)
(* (src/src/bounds.rs and the axis and plot parts of src/src/lib.rs).      *)
(*                                                                         *)
(* f64 values are modelled as exact rationals <<n, d>> in lowest terms     *)
(* with d > 0, together with the IEEE-754 special values: <<1, 0>> is      *)
(* +inf, <<-1, 0>> is -inf and <<0, 0>> is NaN.  Arithmetic follows the    *)
(* IEEE rules for the special values (x / 0, inf - inf, 0 * inf, NaN       *)
(* comparisons); rounding error of finite results and the sign of zero     *)
(* are not modelled.                                                       *)
(***************************************************************************)
EXTENDS Integers, Sequences, FiniteSets, TLC

VARIABLES
  ntRange,   \* Range::nice_ticks: the receiver (self)
  ntCount,   \* Range::nice_ticks: the `count` argument
  ntIter,    \* the NiceTicksIter under iteration
  ntOut,     \* the values NiceTicksIter::next has returned so far
  ntPc,      \* "start" | "iter" | "done"
  ftRange,   \* FixedTicksIter::new: the `range` argument
  ftCount,   \* FixedTicksIter::new: the `count` argument
  ftIter,    \* the FixedTicksIter under iteration
  ftOut,     \* the values FixedTicksIter::next has returned so far
  ftPc,      \* "start" | "iter" | "done"
  axis,      \* an Axis: scale, min, max, margin, ticks
  prIn,      \* Axis::pretty_range: the DataRange argument of the call in progress
  prOut,     \* Axis::pretty_range: the Range it returns
  prPc,      \* "idle" | "returned"
  unA,       \* Range::union: the receiver (self)
  unB,       \* Range::union: the `other` argument
  unOut,     \* Range::union: the Range it returns
  unPc,      \* "start" | "done"
  series,    \* Plot.axes: for each series, what its data_bounds() returns
  bPc,       \* Plot::bounds: "idle" | "loop" | "returned" | "panicked"
  bIdx,      \* Plot::bounds: the index of the next series of the for loop
  bAcc,      \* Plot::bounds: the local `bounds: Option<DataBounds>`
  bCall,     \* the union_bounds call of the latest loop iteration, if it made one
  bLogged,   \* the number of errors log_err has printed during the call
  bOut,      \* Plot::bounds: the DataBounds it returns
  tfFrom,    \* Bounds::transform_to: the receiver (self), the source bounds
  tfTo,      \* Bounds::transform_to: the `viewport` argument
  tfOut,     \* Bounds::transform_to: the Affine it returns
  tfPt,      \* the point the affine map was last applied to
  tfImg,     \* the image of tfPt
  tfPc,      \* "start" | "made" | "applied"
  ulA,       \* three ranges a, b, c to be unioned in different groupings
  ulB,
  ulC,
  ulAB,      \* a.union(b)
  ulBA,      \* b.union(a)
  ulBC,      \* b.union(c)
  ulLeft,    \* a.union(b).union(c)
  ulRight,   \* a.union(b.union(c))
  ulPc,      \* the number of Range::union calls made so far, 0..5
  tkAxis,    \* Axis::iter_ticks: the receiver (self)
  tkRange,   \* Axis::iter_ticks: the `range: DataRange` argument
  tkIter,    \* the TicksIter under iteration
  tkOut,     \* the ticks TicksIter::next has returned so far
  tkPc,      \* "start" | "iter" | "done"
  plX,       \* Plot.x
  plY,       \* Plot.y
  plAxes,    \* Plot.axes: for each series, what its data_bounds() returns
  rdSize,    \* render.size()
  scene,     \* render.scene: the drawing commands accumulated so far
  dPc,       \* Plot::draw: "idle" | "bounds" | "transform" | "yticks" | "xticks" | "series" | "done" | "panicked"
  dIdx,      \* Plot::draw: the index of the next series of the last for loop
  dBounds,   \* Plot::draw: the local `data_bounds`
  dPretty,   \* Plot::viewport_transform: the local `pretty`
  dFrom,     \* Plot::viewport_transform: the local `from`, the receiver of transform_to
  dTransform,  \* Plot::draw: the local `transform`
  dCalls,    \* how often the pass has called bounds() and viewport_transform()
  wPlot,     \* App.plot: the Plot shown, [x, y, axes]
  wInit,     \* App.init.is_some()
  wConfig,   \* App.init.config: the width and height of the surface
  wStale,    \* App.stale
  wRender,   \* App.render.is_some()
  wScene,    \* App.render.scene
  wSize,     \* what render.size() returned to the latest draw pass
  wHanded,   \* the scene last handed to vello's render_to_texture, if any
  wTexture,  \* what the texture (handle.view) holds, if anything
  wScreen,   \* what the last presented frame shows, if anything
  wStatus,   \* the event loop: "running" | "exited" | "panicked"
  wLast,     \* history: the event handled last and what its handler did
  wDrawn,    \* history: Plot::draw has been called from the window
  wResized,  \* history: a Resized of nonzero size arrived since the last draw
  sbIn,      \* the Bounds shrink_by / expand_by is called on
  sbFract,   \* the fraction
  sbShrunk,  \* Bounds::shrink_by(fract)
  sbExpanded,\* Bounds::expand_by(-fract)
  sbPc,      \* "start" | "shrunk" | "expanded" | "both"
  scX,       \* ScatterAxes.x: the cells of the x column
  scY,       \* ScatterAxes.y: the cells of the y column
  scHueColumn, \* ScatterAxes.hue_column
  scHueKeys, \* ScatterAxes.hue_keys
  scFilled,  \* the markers ScatterAxes::draw has filled, in order
  scPc       \* "built" | "drawn" | "panicked"

niceVars == <<ntRange, ntCount, ntIter, ntOut, ntPc>>

fixedVars == <<ftRange, ftCount, ftIter, ftOut, ftPc>>

axisVars == <<axis, prIn, prOut, prPc>>

unionVars == <<unA, unB, unOut, unPc>>

plotVars == <<series, bPc, bIdx, bAcc, bCall, bLogged, bOut>>

transformVars == <<tfFrom, tfTo, tfOut, tfPt, tfImg, tfPc>>

scatterVars == <<scX, scY, scHueColumn, scHueKeys, scFilled, scPc>>

shrinkVars == <<sbIn, sbFract, sbShrunk, sbExpanded, sbPc>>

windowVars ==
  <<wPlot, wInit, wConfig, wStale, wRender, wScene, wSize, wHanded, wTexture, wScreen, wStatus,
    wLast, wDrawn, wResized>>

drawVars ==
  <<plX, plY, plAxes, rdSize, scene, dPc, dIdx, dBounds, dPretty, dFrom, dTransform, dCalls>>

ticksVars == <<tkAxis, tkRange, tkIter, tkOut, tkPc>>

lawsVars == <<ulA, ulB, ulC, ulAB, ulBA, ulBC, ulLeft, ulRight, ulPc>>

vars == <<niceVars, fixedVars, axisVars, unionVars, plotVars, transformVars, lawsVars, ticksVars, drawVars, windowVars, shrinkVars, scatterVars>>

\* the variables of the other components
notNice == <<fixedVars, axisVars, unionVars, plotVars, transformVars, lawsVars, ticksVars, drawVars, windowVars, shrinkVars, scatterVars>>
notFixed == <<niceVars, axisVars, unionVars, plotVars, transformVars, lawsVars, ticksVars, drawVars, windowVars, shrinkVars, scatterVars>>
notAxis == <<niceVars, fixedVars, unionVars, plotVars, transformVars, lawsVars, ticksVars, drawVars, windowVars, shrinkVars, scatterVars>>
notUnion == <<niceVars, fixedVars, axisVars, plotVars, transformVars, lawsVars, ticksVars, drawVars, windowVars, shrinkVars, scatterVars>>
notPlot == <<niceVars, fixedVars, axisVars, unionVars, transformVars, lawsVars, ticksVars, drawVars, windowVars, shrinkVars, scatterVars>>
notLaws == <<niceVars, fixedVars, axisVars, unionVars, plotVars, transformVars, ticksVars, drawVars, windowVars, shrinkVars, scatterVars>>
notTransform == <<niceVars, fixedVars, axisVars, unionVars, plotVars, lawsVars, ticksVars, drawVars, windowVars, shrinkVars, scatterVars>>
notTicks == <<niceVars, fixedVars, axisVars, unionVars, plotVars, transformVars, lawsVars, drawVars, windowVars, shrinkVars, scatterVars>>
notDraw == <<niceVars, fixedVars, axisVars, unionVars, plotVars, transformVars, lawsVars, ticksVars, windowVars, shrinkVars, scatterVars>>
notWindow == <<niceVars, fixedVars, axisVars, unionVars, plotVars, transformVars, lawsVars, ticksVars, drawVars, shrinkVars, scatterVars>>
notShrink == <<niceVars, fixedVars, axisVars, unionVars, plotVars, transformVars, lawsVars, ticksVars, drawVars, windowVars, scatterVars>>
notScatter == <<niceVars, fixedVars, axisVars, unionVars, plotVars, transformVars, lawsVars, ticksVars, drawVars, windowVars, shrinkVars>>

(***************************************************************************)
(* Bounds of the model.                                                    *)
(***************************************************************************)
MaxEnd == 4      \* range endpoints are n/d with |n| <= MaxEnd
MaxCount == 10   \* the tick counts asked of nice_ticks are 1..MaxCount
MaxFixed == 5    \* the counts given to FixedTicksIter::new are 0..MaxFixed
MaxLabels == 4   \* a label column has 0..MaxLabels rows
MaxUnionEnd == 2 \* the operands of Range::union have endpoints -1..MaxUnionEnd
MaxSeries == 3   \* a plot holds at most MaxSeries series
MaxDrawSeries == 2  \* a plot that is drawn holds at most MaxDrawSeries series
MaxRows == 2     \* the columns of a scatter series have 0..MaxRows rows
MaxTfEnd == 2    \* the source bounds of transform_to have endpoints n/2, -1 <= n <= MaxTfEnd

(***************************************************************************)
(* f64                                                                     *)
(***************************************************************************)
IAbs(i) == IF i < 0 THEN -i ELSE i

IMax(i, j) == IF i < j THEN j ELSE i

RECURSIVE Gcd(_, _)
Gcd(a, b) == IF b = 0 THEN a ELSE Gcd(b, a % b)

\* the rational n/d (d # 0) in lowest terms with a positive denominator
Q(n, d) ==
  LET g == Gcd(IAbs(n), IAbs(d))
      s == IF d < 0 THEN -1 ELSE 1
  IN  <<(s * n) \div g, (s * d) \div g>>

Fl(n) == <<n, 1>>

NaN == <<0, 0>>
PosInf == <<1, 0>>
NegInf == <<-1, 0>>

IsNaN(a) == a = NaN
IsFinite(a) == a[2] # 0
IsInf(a) == a = PosInf \/ a = NegInf
IsZero(a) == a = Fl(0)

\* -1 for negative values and -inf, 1 otherwise (the sign of zero is +)
Sgn(a) == IF a[1] < 0 THEN -1 ELSE 1

FNeg(a) == <<-a[1], a[2]>>

FAdd(a, b) ==
  IF IsNaN(a) \/ IsNaN(b) THEN NaN
  ELSE IF IsInf(a) /\ IsInf(b) THEN (IF a = b THEN a ELSE NaN)
  ELSE IF IsInf(a) THEN a
  ELSE IF IsInf(b) THEN b
  ELSE Q(a[1] * b[2] + b[1] * a[2], a[2] * b[2])

FSub(a, b) == FAdd(a, FNeg(b))

FMul(a, b) ==
  IF IsNaN(a) \/ IsNaN(b) THEN NaN
  ELSE IF IsInf(a) \/ IsInf(b)
    THEN (IF IsZero(a) \/ IsZero(b) THEN NaN ELSE <<Sgn(a) * Sgn(b), 0>>)
  ELSE Q(a[1] * b[1], a[2] * b[2])

FDiv(a, b) ==
  IF IsNaN(a) \/ IsNaN(b) THEN NaN
  ELSE IF IsInf(a) THEN (IF IsInf(b) THEN NaN ELSE <<Sgn(a) * Sgn(b), 0>>)
  ELSE IF IsInf(b) THEN Fl(0)
  ELSE IF IsZero(b) THEN (IF IsZero(a) THEN NaN ELSE <<Sgn(a), 0>>)
  ELSE Q(a[1] * b[2], a[2] * b[1])

\* a < b; false when either is NaN
FLt(a, b) ==
  IF IsNaN(a) \/ IsNaN(b) \/ a = b THEN FALSE
  ELSE IF a = NegInf \/ b = PosInf THEN TRUE
  ELSE IF a = PosInf \/ b = NegInf THEN FALSE
  ELSE a[1] * b[2] < b[1] * a[2]

\* a == b; false when either is NaN
FEq(a, b) == ~IsNaN(a) /\ ~IsNaN(b) /\ a = b

FLe(a, b) == FLt(a, b) \/ FEq(a, b)

FAbs(a) == <<IAbs(a[1]), a[2]>>

\* f64::signum: 1.0 for +0.0 and positive values, -1.0 for negative, NaN for NaN
FSignum(a) == IF IsNaN(a) THEN NaN ELSE Fl(Sgn(a))

\* f64::min / f64::max: a NaN operand is ignored
FMin(a, b) == IF IsNaN(a) THEN b ELSE IF IsNaN(b) THEN a ELSE IF FLt(b, a) THEN b ELSE a
FMax(a, b) == IF IsNaN(a) THEN b ELSE IF IsNaN(b) THEN a ELSE IF FLt(a, b) THEN b ELSE a

FFloor(a) == IF IsFinite(a) THEN Fl(a[1] \div a[2]) ELSE a

FCeil(a) == IF IsFinite(a) THEN Fl(-((-a[1]) \div a[2])) ELSE a

\* f64::round: to the nearest integer, halves away from zero
FRound(a) ==
  IF IsFinite(a)
    THEN Fl(Sgn(a) * ((2 * IAbs(a[1]) + a[2]) \div (2 * a[2])))
    ELSE a

\* 10^e for an integer e
RECURSIVE Pow10(_)
Pow10(e) ==
  IF e = 0 THEN Fl(1)
  ELSE IF e > 0 THEN FMul(Fl(10), Pow10(e - 1))
  ELSE FDiv(Pow10(e + 1), Fl(10))

\* floor(log10(a)) for a finite a > 0: the e with 10^e <= a < 10^(e+1)
RECURSIVE FloorLog10From(_, _)
FloorLog10From(a, e) ==
  IF FLt(a, Pow10(e)) THEN FloorLog10From(a, e - 1)
  ELSE IF FLe(Pow10(e + 1), a) THEN FloorLog10From(a, e + 1)
  ELSE e

\* step.log10().floor()
FLog10Floor(a) ==
  IF IsNaN(a) \/ FLt(a, Fl(0)) THEN NaN
  ELSE IF IsZero(a) THEN NegInf
  ELSE IF a = PosInf THEN PosInf
  ELSE Fl(FloorLog10From(a, 0))

\* whether a is 10^e for an integer e
IsPow10(a) == IsFinite(a) /\ FLt(Fl(0), a) /\ Pow10(FloorLog10From(a, 0)) = a

\* whether f64::log10(a) is a value of the model: a special value, or an
\* integer (log10 of other values is irrational and is left undefined)
Log10Exact(a) == ~IsFinite(a) \/ FLe(a, Fl(0)) \/ IsPow10(a)

\* f64::log10
FLog10(a) ==
  IF IsNaN(a) \/ FLt(a, Fl(0)) THEN NaN
  ELSE IF IsZero(a) THEN NegInf
  ELSE IF a = PosInf THEN PosInf
  ELSE CASE IsPow10(a) -> Fl(FloorLog10From(a, 0))

\* whether 10f64.powf(k) is a value of the model
PowfExact(k) == ~IsFinite(k) \/ k[2] = 1

\* 10f64.powf(k) for an integral, infinite or NaN k
FPowf10(k) ==
  IF IsNaN(k) THEN NaN
  ELSE IF k = PosInf THEN PosInf
  ELSE IF k = NegInf THEN Fl(0)
  ELSE CASE k[2] = 1 -> Pow10(k[1])

(***************************************************************************)
(* Range (bounds.rs)                                                       *)
(***************************************************************************)
Range(min, max) == [min |-> min, max |-> max]

RangeSize(r) == FSub(r.max, r.min)

\* a bug Range::union could have: a zero-size `other` is merged like any other
RangeUnionNoOtherCheck(self, other) ==
  IF FEq(RangeSize(self), Fl(0)) THEN other
  ELSE Range(FMin(self.min, other.min), FMax(self.max, other.max))

\* a bug Range::union could have: the maximum of the result is that of self
RangeUnionKeepSelfMax(self, other) ==
  IF FEq(RangeSize(self), Fl(0)) THEN other
  ELSE IF FEq(RangeSize(other), Fl(0)) THEN self
  ELSE Range(FMin(self.min, other.min), self.max)

\* a bug Range::union could have: min and max are taken the wrong way round
RangeUnionSwapped(self, other) ==
  IF FEq(RangeSize(self), Fl(0)) THEN other
  ELSE IF FEq(RangeSize(other), Fl(0)) THEN self
  ELSE Range(FMax(self.min, other.min), FMin(self.max, other.max))

\* Range::union
RangeUnion(self, other) ==
  IF FEq(RangeSize(self), Fl(0)) THEN other
  ELSE IF FEq(RangeSize(other), Fl(0)) THEN self
  ELSE Range(FMin(self.min, other.min), FMax(self.max, other.max))

\* the `match base { ... }` of nice_ticks
NiceBase(base) ==
  IF FLt(base, Fl(1)) THEN Fl(1)
  ELSE IF FLt(base, Fl(2)) THEN Fl(2)
  ELSE IF FLt(base, Q(5, 2)) THEN Q(5, 2)
  ELSE IF FLt(base, Fl(5)) THEN Fl(5)
  ELSE Fl(10)

\* the raw step, its decade k and the normalised base of nice_ticks
NiceRawStep(self, count) == FDiv(FSub(self.max, self.min), Fl(count))
NiceK(self, count) == FLog10Floor(NiceRawStep(self, count))
NiceRawBase(self, count) == FDiv(NiceRawStep(self, count), FPowf10(NiceK(self, count)))

NiceStep(self, count) ==
  FMul(NiceBase(NiceRawBase(self, count)), FPowf10(NiceK(self, count)))

NiceLo(self, count) ==
  FMul(FFloor(FDiv(self.min, NiceStep(self, count))), NiceStep(self, count))

NiceHi(self, count) ==
  FMul(FCeil(FDiv(self.max, NiceStep(self, count))), NiceStep(self, count))

\* (-k as i32 + 4).max(0) as usize
NicePrecision(self, count) ==
  LET k == NiceK(self, count)
  IN  IF IsFinite(k) THEN IMax(4 - k[1], 0) ELSE 0

NiceTicksIterNew(lo, hi, step, precision) ==
  [current |-> lo, step |-> step, hi |-> hi, precision |-> precision]

nice_ticks(self, count) ==
  NiceTicksIterNew(NiceLo(self, count), NiceHi(self, count),
                   NiceStep(self, count), NicePrecision(self, count))

\* a bug NiceTicksIter::next could have: the bound hi without the half step
NiceHasNextNoHalfStep(it) == FLt(it.current, it.hi)

\* NiceTicksIter::next: whether the iterator yields another value
NiceHasNext(it) == FLt(it.current, FAdd(it.hi, FMul(it.step, Q(1, 2))))

\* NiceTicksIter::next: the value yielded
NiceValue(it) ==
  LET p == Pow10(it.precision)
  IN  FDiv(FRound(FMul(it.current, p)), p)

NoIter == NiceTicksIterNew(NaN, NaN, NaN, 0)

(***************************************************************************)
(* Range::expand / shrink, Bounds and the affine map (bounds.rs)           *)
(***************************************************************************)
\* Range::contains
RangeContains(self, value) ==
  \/ FLe(self.min, value) /\ FLe(value, self.max)
  \/ FLe(value, self.min) /\ FLe(self.max, value)

\* Range::expand
RangeExpand(self, amount) ==
  Range(FSub(self.min, FMul(amount, FSignum(RangeSize(self)))),
        FAdd(self.max, FMul(amount, FSignum(RangeSize(self)))))

\* Range::shrink
RangeShrink(self, amount) == RangeExpand(self, FNeg(amount))

\* Range::shrink_by
RangeShrinkBy(self, fract) == RangeShrink(self, FMul(RangeSize(self), fract))

\* Bounds::new
Bounds(x, y) == [x |-> x, y |-> y]

\* Bounds::shrink
BoundsShrink(self, amount) ==
  Bounds(RangeShrink(self.x, amount), RangeShrink(self.y, amount))

\* Range::expand_by
RangeExpandBy(self, fract) == RangeExpand(self, FMul(RangeSize(self), fract))

\* Bounds::shrink_by: x is shrunk by the fraction of its size, y by `fract`
\* taken as an amount
BoundsShrinkBy(self, fract) ==
  Bounds(RangeShrinkBy(self.x, fract), RangeShrink(self.y, fract))

\* Bounds::expand
BoundsExpand(self, amount) ==
  Bounds(RangeExpand(self.x, amount), RangeExpand(self.y, amount))

\* Bounds::expand_by
BoundsExpandBy(self, fract) ==
  Bounds(RangeExpandBy(self.x, fract), RangeExpandBy(self.y, fract))

\* kurbo's Affine::new([a, b, c, d, e, f]): (x, y) -> (a*x + c*y + e, b*x + d*y + f)
Affine(c) == [a |-> c[1], b |-> c[2], c |-> c[3], d |-> c[4], e |-> c[5], f |-> c[6]]

Point(x, y) == [x |-> x, y |-> y]

\* Affine * Point
AffineApply(m, p) ==
  Point(FAdd(FAdd(FMul(m.a, p.x), FMul(m.c, p.y)), m.e),
        FAdd(FAdd(FMul(m.b, p.x), FMul(m.d, p.y)), m.f))

\* a bug transform_to could have: the translation forgets the scale factor
TransformToUnscaledTranslate(self, viewport) ==
  LET scale_x == FDiv(RangeSize(viewport.x), RangeSize(self.x))
      scale_y == FDiv(RangeSize(viewport.y), RangeSize(self.y))
      translate_x == FSub(viewport.x.min, self.x.min)
      translate_y == FSub(viewport.y.min, self.y.min)
  IN  Affine(<<scale_x, Fl(0), Fl(0), scale_y, translate_x, translate_y>>)

\* Bounds::transform_to
TransformTo(self, viewport) ==
  LET scale_x == FDiv(RangeSize(viewport.x), RangeSize(self.x))
      scale_y == FDiv(RangeSize(viewport.y), RangeSize(self.y))
      translate_x == FSub(viewport.x.min, FMul(self.x.min, scale_x))
      translate_y == FSub(viewport.y.min, FMul(self.y.min, scale_y))
  IN  Affine(<<scale_x, Fl(0), Fl(0), scale_y, translate_x, translate_y>>)

NoAffine == Affine(<<NaN, NaN, NaN, NaN, NaN, NaN>>)

(***************************************************************************)
(* FixedTicksIter (lib.rs)                                                 *)
(***************************************************************************)
\* usize::saturating_sub(1)
SatSub1(n) == IF n = 0 THEN 0 ELSE n - 1

\* a bug FixedTicksIter::new could have: the step is size / count
FixedTicksIterNewDivCount(range, count) ==
  [count |-> count, current |-> 0, start |-> range.min,
   step |-> FDiv(RangeSize(range), Fl(count))]

FixedTicksIterNew(range, count) ==
  [count |-> count, current |-> 0, start |-> range.min,
   step |-> FDiv(RangeSize(range), Fl(SatSub1(count)))]

\* FixedTicksIter::next: whether the iterator yields another value
FixedHasNext(it) == ~(it.current >= it.count)

\* FixedTicksIter::next: the value yielded
FixedValue(it) == FAdd(it.start, FMul(Fl(it.current), it.step))

NoFixedIter == [count |-> 0, current |-> 0, start |-> NaN, step |-> NaN]

(***************************************************************************)
(* DataRange (bounds.rs) and Axis (lib.rs)                                 *)
(***************************************************************************)
\* DataRange::Continuous { range, unit, margin_min, margin_max }
Continuous(range, unit, margin_min, margin_max) ==
  [kind |-> "Continuous", range |-> range, unit |-> unit,
   margin_min |-> margin_min, margin_max |-> margin_max, labels |-> <<>>]

\* DataRange::Categorical(&Column); the fields of the other variant are unused
Categorical(labels) ==
  [kind |-> "Categorical", range |-> Range(Fl(0), Fl(0)), unit |-> "Absolute",
   margin_min |-> FALSE, margin_max |-> FALSE, labels |-> labels]

\* impl From<Range> for DataRange
FromRange(range) == Continuous(range, "Absolute", TRUE, TRUE)

\* Option<T>
None == <<>>
Some(v) == <<v>>
UnwrapOr(o, default) == IF o = None THEN default ELSE o[1]

\* Ticks
TicksAuto == [kind |-> "Auto", count |-> 0]
TicksFixed(n) == [kind |-> "Fixed", count |-> n]

\* impl Default for Axis (the title is presentation only and is left out)
AxisDefault ==
  [scale |-> "Linear", min |-> None, max |-> None, margin |-> Q(1, 10),
   ticks |-> TicksAuto]

\* the amount pretty_range moves an endpoint of r by
MarginAmount(self, r) ==
  IF self.scale = "Linear"
    THEN FAbs(FMul(RangeSize(r), self.margin))
    ELSE FPowf10(FAbs(FMul(FSub(FLog10(r.max), FLog10(r.min)), self.margin)))

\* a bug pretty_range could have: the margin is applied whatever the flag
ApplyMarginMinAlways(self, r, margin_min) ==
  [r EXCEPT !.min = FSub(r.min, MarginAmount(self, r))]

\* if margin_min { r.min -= ... }
ApplyMarginMin(self, r, margin_min) ==
  IF margin_min THEN [r EXCEPT !.min = FSub(r.min, MarginAmount(self, r))] ELSE r

\* if margin_max { r.max += ... }
ApplyMarginMax(self, r, margin_max) ==
  IF margin_max THEN [r EXCEPT !.max = FAdd(r.max, MarginAmount(self, r))] ELSE r

\* a bug pretty_range could have: the margined endpoints are returned as they are
ApplyOverrideNone(self, r) == r

\* Range::new(self.min.unwrap_or(r.min), self.max.unwrap_or(r.max))
ApplyOverride(self, r) == Range(UnwrapOr(self.min, r.min), UnwrapOr(self.max, r.max))

\* a bug pretty_range could have: the explicit min/max also replace the
\* endpoints of a categorical range
PrettyCategoricalOverride(self, labels) ==
  ApplyOverride(self, Range(Q(-1, 2), FSub(Fl(Len(labels)), Q(1, 2))))

\* the Categorical arm of pretty_range
PrettyCategorical(self, labels) == Range(Q(-1, 2), FSub(Fl(Len(labels)), Q(1, 2)))

\* the Continuous arm of pretty_range
PrettyContinuous(self, range, margin_min, margin_max) ==
  ApplyOverride(self,
    ApplyMarginMax(self, ApplyMarginMin(self, range, margin_min), margin_max))

pretty_range(self, r) ==
  IF r.kind = "Continuous"
    THEN PrettyContinuous(self, r.range, r.margin_min, r.margin_max)
    ELSE PrettyCategorical(self, r.labels)

\* whether every log10 and powf that MarginAmount(self, r) evaluates is a value
\* of the model
MarginExact(self, r) ==
  \/ self.scale = "Linear"
  \/ /\ Log10Exact(r.max)
     /\ Log10Exact(r.min)
     /\ PowfExact(FMul(FSub(FLog10(r.max), FLog10(r.min)), self.margin))

\* whether every log10 and powf that pretty_range(self, r) evaluates is a value
\* of the model
PrettyExact(self, r) ==
  r.kind = "Continuous" =>
    /\ r.margin_min => MarginExact(self, r.range)
    /\ r.margin_max => MarginExact(self, ApplyMarginMin(self, r.range, r.margin_min))

(***************************************************************************)
(* TicksIter and Tick (lib.rs)                                             *)
(***************************************************************************)
\* ColumnIter { column, current }
ColumnIterNew(column) == [column |-> column, current |-> 0]

NoColumnIter == ColumnIterNew(<<>>)

\* a bug ColumnIter::next could have: the index yielded is the one after the
\* increment
ColumnIterValueAfterIncrement(it) ==
  [index |-> it.current + 1, label |-> it.column[it.current + 1]]

\* ColumnIter::next: whether the iterator yields another value
ColumnIterHasNext(it) == ~(it.current >= Len(it.column))

\* ColumnIter::next: the (index, value) yielded; rows are numbered from 0
ColumnIterValue(it) == [index |-> it.current, label |-> it.column[it.current + 1]]

\* TicksIter::Auto { iter, scale, unit }
TicksIterAuto(iter, scale, unit) ==
  [kind |-> "Auto", nice |-> iter, scale |-> scale, unit |-> unit,
   fixed |-> NoFixedIter, labeled |-> NoColumnIter]

\* TicksIter::Fixed(iter)
TicksIterFixed(iter) ==
  [kind |-> "Fixed", nice |-> NoIter, scale |-> "Linear", unit |-> "Absolute",
   fixed |-> iter, labeled |-> NoColumnIter]

\* TicksIter::Labeled(iter)
TicksIterLabeled(iter) ==
  [kind |-> "Labeled", nice |-> NoIter, scale |-> "Linear", unit |-> "Absolute",
   fixed |-> NoFixedIter, labeled |-> iter]

NoTicksIter == TicksIterFixed(NoFixedIter)

\* an absent label
NoLabel == 0

\* Tick::Auto { value, precision, unit }
TickAuto(value, precision, unit) ==
  [kind |-> "Auto", value |-> value, precision |-> precision, unit |-> unit,
   label |-> NoLabel, index |-> 0]

\* Tick::Fixed { value }
TickFixed(value) ==
  [kind |-> "Fixed", value |-> value, precision |-> 0, unit |-> "Absolute",
   label |-> NoLabel, index |-> 0]

\* Tick::Label { label, index }
TickLabel(label, index) ==
  [kind |-> "Label", value |-> NaN, precision |-> 0, unit |-> "Absolute",
   label |-> label, index |-> index]

\* Tick::position
TickPosition(tick) == IF tick.kind = "Label" THEN Fl(tick.index) ELSE tick.value

\* a bug iter_ticks could have: Auto ticks are made from the pretty range
iter_ticks_auto_pretty(self, range, nice_tick_count) ==
  IF self.ticks.kind = "Auto"
    THEN IF range.kind = "Categorical"
      THEN TicksIterLabeled(ColumnIterNew(range.labels))
      ELSE LET p == pretty_range(self, range)
               r == IF self.scale = "Linear" THEN p
                    ELSE Range(FLog10(p.min), FLog10(p.max))
           IN  TicksIterAuto(nice_ticks(r, nice_tick_count), self.scale, range.unit)
    ELSE TicksIterFixed(FixedTicksIterNew(pretty_range(self, range), self.ticks.count))

\* Axis::iter_ticks
iter_ticks(self, range, nice_tick_count) ==
  IF self.ticks.kind = "Auto"
    THEN IF range.kind = "Categorical"
      THEN TicksIterLabeled(ColumnIterNew(range.labels))
      ELSE LET r == IF self.scale = "Linear" THEN range.range
                    ELSE Range(FLog10(range.range.min), FLog10(range.range.max))
           IN  TicksIterAuto(nice_ticks(r, nice_tick_count), self.scale, range.unit)
    ELSE TicksIterFixed(FixedTicksIterNew(pretty_range(self, range), self.ticks.count))

\* whether every log10 and powf that iter_ticks(self, range, n) and the
\* iteration of its result evaluate is a value of the model
IterTicksExact(self, range) ==
  IF self.ticks.kind = "Auto"
    THEN range.kind = "Categorical" \/ self.scale = "Linear"
    ELSE PrettyExact(self, range)

\* TicksIter::next: whether the iterator yields another tick
TicksIterHasNext(it) ==
  CASE it.kind = "Auto" -> NiceHasNext(it.nice)
    [] it.kind = "Fixed" -> FixedHasNext(it.fixed)
    [] it.kind = "Labeled" -> ColumnIterHasNext(it.labeled)

\* TicksIter::next: the tick yielded
TicksIterValue(it) ==
  CASE it.kind = "Auto" ->
         TickAuto(IF it.scale = "Linear" THEN NiceValue(it.nice)
                                         ELSE FPowf10(NiceValue(it.nice)),
                  it.nice.precision, it.unit)
    [] it.kind = "Fixed" -> TickFixed(FixedValue(it.fixed))
    [] it.kind = "Labeled" ->
         TickLabel(ColumnIterValue(it.labeled).label, ColumnIterValue(it.labeled).index)

\* TicksIter::next: the iterator after it has yielded a tick
TicksIterAdvance(it) ==
  CASE it.kind = "Auto" ->
         [it EXCEPT !.nice.current = FAdd(it.nice.current, it.nice.step)]
    [] it.kind = "Fixed" -> [it EXCEPT !.fixed.current = it.fixed.current + 1]
    [] it.kind = "Labeled" -> [it EXCEPT !.labeled.current = it.labeled.current + 1]

(***************************************************************************)
(* DataBounds and Plot::bounds (lib.rs)                                    *)
(***************************************************************************)
\* DataRange::from_column: the range of a column, tagged with its unit
FromColumn(range, unit) == Continuous(range, unit, TRUE, TRUE)

\* what is left of a value when the computation of it panicked
Panic ==
  [kind |-> "Panic", range |-> Range(NaN, NaN), unit |-> "Absolute",
   margin_min |-> FALSE, margin_max |-> FALSE, labels |-> <<>>]

DataBounds(x, y) == [x |-> x, y |-> y]

PanicBounds == DataBounds(Panic, Panic)

\* PolarsResult<DataBounds>
Ok(x, y) == [ok |-> TRUE, x |-> x, y |-> y]
Err == [ok |-> FALSE, x |-> Panic, y |-> Panic]

\* ScatterAxes::data_bounds and LineAxes::data_bounds on numeric columns
ScatterBounds(rx, ry) == Ok(FromRange(rx), FromRange(ry))

\* HistogramAxes::data_bounds
HistogramBounds(range, maxCount) ==
  Ok(Continuous(range, "Absolute", FALSE, FALSE),
     Continuous(Range(Fl(0), Fl(maxCount)), "Absolute", FALSE, TRUE))

\* BarChartAxes::data_bounds
BarChartBounds(labels, maxValue) ==
  Ok(Categorical(labels),
     Continuous(Range(Fl(0), Fl(maxValue)), "Absolute", FALSE, TRUE))

\* a bug Plot::bounds could have: the default is the empty range [0, 0]
DefaultBoundsEmpty ==
  DataBounds(Continuous(Range(Fl(0), Fl(0)), "Absolute", FALSE, FALSE),
             Continuous(Range(Fl(0), Fl(0)), "Absolute", FALSE, FALSE))

\* the default of Plot::bounds: [0, 1] x [0, 1], Absolute, no margins
DefaultBounds ==
  DataBounds(Continuous(Range(Fl(0), Fl(1)), "Absolute", FALSE, FALSE),
             Continuous(Range(Fl(0), Fl(1)), "Absolute", FALSE, FALSE))

\* a bug union_range could have: a side keeps its margin only if both want it
union_range_and(a, b) ==
  IF a.kind = "Continuous" /\ b.kind = "Continuous"
    THEN Continuous(RangeUnion(a.range, b.range), a.unit,
                    a.margin_min /\ b.margin_min, a.margin_max /\ b.margin_max)
    ELSE Panic

\* a bug union_range could have: a categorical operand is coerced, not refused
union_range_coerce(a, b) ==
  IF a.kind = "Continuous" /\ b.kind = "Continuous"
    THEN Continuous(RangeUnion(a.range, b.range), a.unit,
                    a.margin_min \/ b.margin_min, a.margin_max \/ b.margin_max)
    ELSE a

\* Plot::union_range
union_range(a, b) ==
  IF a.kind = "Continuous" /\ b.kind = "Continuous"
    THEN Continuous(RangeUnion(a.range, b.range), a.unit,
                    a.margin_min \/ b.margin_min, a.margin_max \/ b.margin_max)
    ELSE Panic

\* Plot::union_bounds: x is computed first, and a panic unwinds through it
union_bounds(a, b) ==
  LET x == union_range(a.x, b.x)
      y == union_range(a.y, b.y)
  IN  IF x.kind = "Panic" THEN PanicBounds
      ELSE IF y.kind = "Panic" THEN PanicBounds
      ELSE DataBounds(x, y)

NoCall == [called |-> FALSE, a |-> PanicBounds, b |-> PanicBounds, out |-> PanicBounds]

\* the for loop of Plot::bounds from series i on, with `bounds` the local
\* accumulator; PanicBounds when union_range panics
RECURSIVE PlotBoundsLoop(_, _, _)
PlotBoundsLoop(axes, i, bounds) ==
  IF i > Len(axes) THEN UnwrapOr(bounds, DefaultBounds)
  ELSE IF ~axes[i].ok THEN PlotBoundsLoop(axes, i + 1, bounds)
  ELSE IF bounds = None
    THEN PlotBoundsLoop(axes, i + 1, Some(DataBounds(axes[i].x, axes[i].y)))
  ELSE LET u == union_bounds(bounds[1], DataBounds(axes[i].x, axes[i].y))
       IN  IF u = PanicBounds THEN PanicBounds
           ELSE PlotBoundsLoop(axes, i + 1, Some(u))

\* Plot::bounds, as one call
plot_bounds(axes) == PlotBoundsLoop(axes, 1, None)

(***************************************************************************)
(* Plot::viewport_transform and Plot::draw (lib.rs)                        *)
(***************************************************************************)
\* let ticks = 10 in Plot::draw: the count handed to iter_ticks
NiceTickCount == 10

\* Plot::pretty_bounds
pretty_bounds(x, y, data_bounds) ==
  Bounds(pretty_range(x, data_bounds.x), pretty_range(y, data_bounds.y))

\* Scale::scale_value: the identity for Linear, log10 for Logarithmic
ScaleValue(scale, v) == IF scale = "Linear" THEN v ELSE FLog10(v)

\* Range::map with the scale function of an axis
RangeMapScale(r, scale) == Range(ScaleValue(scale, r.min), ScaleValue(scale, r.max))

\* the `from` bounds of viewport_transform: the scaled pretty bounds
ViewportFrom(x, y, data_bounds) ==
  Bounds(RangeMapScale(pretty_bounds(x, y, data_bounds).x, x.scale),
         RangeMapScale(pretty_bounds(x, y, data_bounds).y, y.scale))

\* ViewportTransform { affine, x, y }
ViewportTransform(affine, x, y) == [affine |-> affine, x |-> x, y |-> y]

NoTransform == ViewportTransform(NoAffine, "Linear", "Linear")

\* Plot::viewport_transform
viewport_transform(x, y, data_bounds, viewport) ==
  ViewportTransform(TransformTo(ViewportFrom(x, y, data_bounds), viewport),
                    x.scale, y.scale)

\* ViewportTransform * Point: the point is scaled, then mapped by the affine
ViewportApply(transform, p) ==
  AffineApply(transform.affine,
              Point(ScaleValue(transform.x, p.x), ScaleValue(transform.y, p.y)))

\* render.size()
Size(width, height) == [width |-> width, height |-> height]

\* the `outer` bounds of Plot::draw: the pixel y range runs from height to 0
DrawOuter(size) == Bounds(Range(Fl(0), size.width), Range(size.height, Fl(0)))

\* the `viewport` of Plot::draw
DrawViewport(size) == BoundsShrink(DrawOuter(size), Fl(80))

\* what a call of the renderer leaves in the scene: its kind, the index of
\* the tick or series it is for, the pixel position of a tick and the
\* transform a series was drawn with
Cmd(cmd, index, at, transform) ==
  [cmd |-> cmd, index |-> index, at |-> at, transform |-> transform]

\* the two strokes of the default border
DrawBorder(sc) ==
  sc \o << Cmd("border", 1, NaN, NoTransform), Cmd("border", 2, NaN, NoTransform) >>

\* every tick an iterator yields
RECURSIVE TicksCollect(_)
TicksCollect(it) ==
  IF TicksIterHasNext(it)
    THEN <<TicksIterValue(it)>> \o TicksCollect(TicksIterAdvance(it))
    ELSE <<>>

\* the tick loops of Plot::draw: every tick is mapped to its pixel position
\* and drawn (a stroke and a text) if the viewport range contains it
RECURSIVE DrawTickCmds(_, _, _, _, _)
DrawTickCmds(cmd, ticks, i, transform, viewport) ==
  IF i > Len(ticks) THEN <<>>
  ELSE LET pos == TickPosition(ticks[i])
           v == IF cmd = "ytick" THEN ViewportApply(transform, Point(Fl(0), pos)).y
                                 ELSE ViewportApply(transform, Point(pos, Fl(0))).x
           range == IF cmd = "ytick" THEN viewport.y ELSE viewport.x
       IN  (IF RangeContains(range, v) THEN <<Cmd(cmd, i, v, NoTransform)>> ELSE <<>>)
             \o DrawTickCmds(cmd, ticks, i + 1, transform, viewport)

\* the y tick loop of Plot::draw
DrawYTicks(sc, y, data_bounds, transform, viewport) ==
  sc \o DrawTickCmds("ytick", TicksCollect(iter_ticks(y, data_bounds.y, NiceTickCount)),
                        1, transform, viewport)

\* the x tick loop of Plot::draw
DrawXTicks(sc, x, data_bounds, transform, viewport) ==
  sc \o DrawTickCmds("xtick", TicksCollect(iter_ticks(x, data_bounds.x, NiceTickCount)),
                        1, transform, viewport)

\* a bug Plot::draw could have: a series is drawn with a transform of its own
\* (here the identity), not with the one of the pass
DrawOneSeriesOwnTransform(sc, i, transform) ==
  Append(sc, Cmd("series", i, NaN,
                 ViewportTransform(Affine(<<Fl(1), Fl(0), Fl(0), Fl(1), Fl(0), Fl(0)>>),
                                   "Linear", "Linear")))

\* axes.draw(render, transform) of series i
DrawOneSeries(sc, i, transform) == Append(sc, Cmd("series", i, NaN, transform))

\* for axes in &self.axes { axes.draw(render, transform) }, from series i on
RECURSIVE DrawSeriesFrom(_, _, _, _)
DrawSeriesFrom(sc, axes, i, transform) ==
  IF i > Len(axes) THEN sc
  ELSE DrawSeriesFrom(DrawOneSeries(sc, i, transform), axes, i + 1, transform)

\* self.draw_legend(render, viewport)
DrawLegend(sc) == Append(sc, Cmd("legend", 0, NaN, NoTransform))

\* what Plot::draw leaves of a pass that panicked
PanicScene == << Cmd("panic", 0, NaN, NoTransform) >>

\* Plot::draw, as one call: the scene after the pass
plot_draw(x, y, axes, size, sc) ==
  LET viewport == DrawViewport(size)
      data_bounds == plot_bounds(axes)
      transform == viewport_transform(x, y, data_bounds, viewport)
  IN  IF data_bounds = PanicBounds THEN PanicScene
      ELSE DrawLegend(
             DrawSeriesFrom(
               DrawXTicks(
                 DrawYTicks(DrawBorder(sc), y, data_bounds, transform, viewport),
                 x, data_bounds, transform, viewport),
               axes, 1, transform))

(***************************************************************************)
(* ScatterAxes (axes/scatter.rs)                                           *)
(***************************************************************************)
\* a cell of a numeric column: whether try_extract::<f64> works on it, and
\* the number it gives
Cell(ok, v) == [ok |-> ok, v |-> v]

\* ScatterAxes::iter: one Ok(point) or Err per row, in row order
ScatterIter(x, y) ==
  [i \in 1..Len(x) |-> [ok |-> x[i].ok /\ y[i].ok, row |-> i, x |-> x[i].v, y |-> y[i].v]]

\* Column::unique_stable: the values of the column, each once, in the order
\* of their first row
RECURSIVE UniqueStable(_)
UniqueStable(column) ==
  IF column = <<>> THEN <<>>
  ELSE LET front == UniqueStable(SubSeq(column, 1, Len(column) - 1))
           last == column[Len(column)]
       IN  IF \E i \in 1..Len(front) : front[i] = last THEN front ELSE Append(front, last)

\* order.iter().enumerate().map(|(i, s)| (s, i)).collect::<HashMap<_, _>>():
\* a key that occurs twice keeps its last index
HueMap(order) ==
  [k \in {order[i] : i \in 1..Len(order)} |->
     (CHOOSE i \in 1..Len(order) :
        order[i] = k /\ \A j \in 1..Len(order) : order[j] = k => j <= i) - 1]

\* the `hues` of ScatterAxes::draw; unique is whether unique_stable worked
ScatterHues(hue_column, hue_keys, unique) ==
  IF hue_keys # None THEN Some(HueMap(hue_keys[1]))
  ELSE IF hue_column # None /\ unique THEN Some(HueMap(UniqueStable(hue_column[1])))
  ELSE None

\* a marker filled by draw: the row of its point, the row of the hue column
\* its colour was read from (0 if it has the colour of the options), and
\* the colour, hues[v] / hues.len() on the colour map
Filled(row, hueRow, index, of) == [row |-> row, hueRow |-> hueRow, index |-> index, of |-> of]

PanicFilled == << Filled(0, 0, 0, 0) >>

\* the loop of draw over self.iter().filter_map(..).map(..).enumerate():
\* points holds the rows that were not skipped, and the k-th of them reads
\* the hue column at index k - 1
ScatterDrawLoop(points, hue_column, hues, n) ==
  [k \in 1..Len(points) |->
     IF hues = None THEN Filled(points[k].row, 0, 0, 0)
     ELSE LET v == hue_column[1][k]
          IN  Filled(points[k].row, k,
                     IF v \in DOMAIN hues[1] THEN hues[1][v] ELSE 0, n)]

\* ScatterAxes::draw: the markers filled, or PanicFilled if an unwrap fails
scatter_draw(x, y, hue_column, hue_keys, unique) ==
  LET hues == ScatterHues(hue_column, hue_keys, unique)
      points == SelectSeq(ScatterIter(x, y), LAMBDA p : p.ok)
      n == IF hues = None THEN 0 ELSE Cardinality(DOMAIN hues[1])
  IN  IF hues # None /\ Len(points) > 0
           /\ (hue_column = None \/ Len(points) > Len(hue_column[1]))
        THEN PanicFilled
        ELSE ScatterDrawLoop(points, hue_column, hues, n)

(***************************************************************************)
(* The interactive window (render/window.rs)                               *)
(***************************************************************************)
\* the part of a Plot that drawing reads
Plot(x, y, axes) == [x |-> x, y |-> y, axes |-> axes]

\* RenderConfig / winit's PhysicalSize<u32>
PixelSize(width, height) == [width |-> width, height |-> height]

\* a bug the RedrawRequested handler could have: the scene is not reset
SceneKeep(sc) == sc

\* vello::Scene::reset
SceneReset(sc) == <<>>

\* what a handler did: the event, whether it called Plot::draw, what
\* render_to_texture returned and what get_current_texture returned ("-" if
\* the handler did not call it)
Handled(event, drew, rendered, frame) ==
  [event |-> event, drew |-> drew, rendered |-> rendered, frame |-> frame]

\* Init::redraw: the frame on screen after it, given what get_current_texture
\* returned: the texture is blitted and presented only if a frame was acquired
InitRedraw(frame, texture, screen) == IF frame = "Ok" THEN texture ELSE screen

(***************************************************************************)
(* Inputs, and the resting state of each component while another one is    *)
(* exercised                                                               *)
(***************************************************************************)
\* the finite f64 values ranges are built from
NiceEnds == {Q(n, d) : n \in -MaxEnd..MaxEnd, d \in {1, 2}} \cup {Fl(97)}

NiceCounts == 1..MaxCount

FixedCounts == 0..MaxFixed

\* the endpoints of the data ranges handed to an axis
DataEnds == {Fl(-2), Fl(0), Q(1, 10), Fl(1), Fl(3), Fl(10), Fl(100)}

\* a label column of n rows
Column(n) == [i \in 1..n |-> i]

ContinuousRanges(units) ==
  {Continuous(Range(a, b), u, mmin, mmax) :
     a \in DataEnds, b \in DataEnds, u \in units,
     mmin \in BOOLEAN, mmax \in BOOLEAN}

CategoricalRanges == {Categorical(Column(n)) : n \in 0..MaxLabels}

\* the arguments of the axis setters
AxisMins == {Fl(-3)}
AxisMaxs == {Fl(20)}
AxisMargins == {Fl(0), Q(1, 10), Fl(1), Q(-1, 2)}

AxisIdle ==
  /\ axis = AxisDefault
  /\ prIn = FromRange(Range(Fl(0), Fl(1)))
  /\ prOut = Range(NaN, NaN)
  /\ prPc = "idle"

\* the operands of Range::union: ascending, inverted and zero-size ranges
UnionEnds == {Fl(n) : n \in -1..MaxUnionEnd}
UnionRanges == {Range(a, b) : a \in UnionEnds, b \in UnionEnds}

\* what the data_bounds() of a series can return
SeriesChoices ==
  { ScatterBounds(Range(Fl(0), Fl(1)), Range(Fl(-2), Fl(3))),
    ScatterBounds(Range(Fl(1), Fl(1)), Range(Fl(3), Fl(3))),
    ScatterBounds(Range(Fl(3), Fl(10)), Range(Fl(0), Fl(1))),
    HistogramBounds(Range(Fl(-2), Fl(3)), 3),
    BarChartBounds(Column(2), 10),
    Ok(FromColumn(Range(Fl(0), Fl(100)), "Date"),
       FromColumn(Range(Fl(1), Fl(10)), "Duration")),
    Err }

UnionIdle ==
  /\ unA = Range(Fl(0), Fl(0))
  /\ unB = Range(Fl(0), Fl(0))
  /\ unOut = Range(NaN, NaN)
  /\ unPc = "start"

PlotIdle ==
  /\ series = <<>>
  /\ bPc = "idle"
  /\ bIdx = 1
  /\ bAcc = None
  /\ bCall = NoCall
  /\ bLogged = 0
  /\ bOut = PanicBounds

\* the endpoints of the source bounds handed to transform_to
TfEnds == {Q(n, 2) : n \in -1..MaxTfEnd}
TfRanges == {Range(a, b) : a \in TfEnds, b \in TfEnds}

\* pixel viewports: outer.shrink(80.0) of a 1000 x 1000 and of a 400 x 200
\* surface (the y range runs from height down to 0), and a tiny one
TfViewports ==
  { Bounds(Range(Fl(80), Fl(920)), Range(Fl(920), Fl(80))),
    Bounds(Range(Fl(80), Fl(320)), Range(Fl(120), Fl(80))),
    Bounds(Range(Fl(0), Fl(1)), Range(Fl(0), Fl(-1))) }

TransformIdle ==
  /\ tfFrom = Bounds(Range(Fl(0), Fl(1)), Range(Fl(0), Fl(1)))
  /\ tfTo = Bounds(Range(Fl(0), Fl(1)), Range(Fl(0), Fl(1)))
  /\ tfOut = NoAffine
  /\ tfPt = Point(NaN, NaN)
  /\ tfImg = Point(NaN, NaN)
  /\ tfPc = "start"

NoRange == Range(NaN, NaN)

\* the numeric columns of n rows: row i holds the number i, or a null that
\* cannot be extracted as a number
NumericColumns(n) ==
  { [i \in 1..n |-> IF i \in S THEN Cell(TRUE, Fl(i)) ELSE Cell(FALSE, NaN)] : S \in SUBSET (1..n) }

\* the values of a hue column
HueValues == {"a", "b"}

\* the hue columns of n rows
HueColumns(n) == [1..n -> HueValues]

\* the key lists given to hue_from_keys
HueKeyLists == { <<"a">>, <<"b", "a">> }

ScatterIdle ==
  /\ scX = <<>>
  /\ scY = <<>>
  /\ scHueColumn = None
  /\ scHueKeys = None
  /\ scFilled = <<>>
  /\ scPc = "built"

\* the fractions shrink_by and expand_by are called with
ShrinkFracts == {Fl(0), Q(1, 10), Q(1, 2), Fl(1), Q(-1, 2)}

NoBounds == Bounds(NoRange, NoRange)

ShrinkIdle ==
  /\ sbIn = Bounds(Range(Fl(0), Fl(1)), Range(Fl(0), Fl(1)))
  /\ sbFract = Fl(0)
  /\ sbShrunk = NoBounds
  /\ sbExpanded = NoBounds
  /\ sbPc = "start"

LawsIdle ==
  /\ ulA = Range(Fl(0), Fl(0))
  /\ ulB = Range(Fl(0), Fl(0))
  /\ ulC = Range(Fl(0), Fl(0))
  /\ ulAB = NoRange
  /\ ulBA = NoRange
  /\ ulBC = NoRange
  /\ ulLeft = NoRange
  /\ ulRight = NoRange
  /\ ulPc = 0

\* the axes iter_ticks is called on
TickAxes ==
  {AxisDefault} \cup {[AxisDefault EXCEPT !.ticks = TicksFixed(n)] : n \in FixedCounts}
    \cup {[AxisDefault EXCEPT !.min = Some(Fl(-3)), !.max = Some(Fl(20))]}
    \cup {[AxisDefault EXCEPT !.min = Some(Fl(-3))],
          [AxisDefault EXCEPT !.margin = Fl(1)],
          [AxisDefault EXCEPT !.ticks = TicksFixed(3), !.min = Some(Fl(-3)), !.max = Some(Fl(20))],
          [AxisDefault EXCEPT !.ticks = TicksFixed(3), !.margin = Fl(1)]}

\* the data ranges iter_ticks is called on: label columns of 0..MaxLabels
\* rows, a column whose labels are not in order, and numeric ranges
TickRanges ==
  CategoricalRanges \cup {Categorical(<<30, 10, 20>>)}
    \cup {FromRange(Range(Fl(0), Fl(97))), FromRange(Range(Fl(1), Fl(1))),
          Continuous(Range(Fl(0), Fl(3)), "Absolute", FALSE, TRUE)}

TicksIdle ==
  /\ tkAxis = AxisDefault
  /\ tkRange = FromRange(Range(Fl(0), Fl(1)))
  /\ tkIter = NoTicksIter
  /\ tkOut = <<>>
  /\ tkPc = "start"

\* what the data_bounds() of a series of a plot that is drawn can return: a
\* scatter series, a scatter series of a single point, a bar chart, an error
DrawSeriesChoices ==
  { ScatterBounds(Range(Fl(0), Fl(1)), Range(Fl(-2), Fl(3))),
    ScatterBounds(Range(Fl(1), Fl(1)), Range(Fl(3), Fl(3))),
    BarChartBounds(Column(2), 10),
    Err }

\* the arguments of Plot::histogram
HistogramBins == {1, 4}

\* the sizes of the surface drawn to: the 1000 x 1000 coordinate system of
\* Plot::render, a small window, and one as small as the viewport margins
RenderSizes == {Size(Fl(1000), Fl(1000)), Size(Fl(400), Fl(200)), Size(Fl(160), Fl(160))}

NoCalls == [bounds |-> 0, viewport_transform |-> 0]

DrawIdle ==
  /\ plX = AxisDefault
  /\ plY = AxisDefault
  /\ plAxes = <<>>
  /\ rdSize = Size(Fl(1000), Fl(1000))
  /\ scene = <<>>
  /\ dPc = "idle"
  /\ dIdx = 1
  /\ dBounds = PanicBounds
  /\ dPretty = Bounds(NoRange, NoRange)
  /\ dFrom = Bounds(NoRange, NoRange)
  /\ dTransform = NoTransform
  /\ dCalls = NoCalls

\* the plots shown in a window: an empty one, a scatter series, a scatter
\* series and a failing one, and a scatter series with a bar chart (whose
\* bounds cannot be unioned)
WindowPlots ==
  { Plot(AxisDefault, AxisDefault, <<>>),
    Plot(AxisDefault, AxisDefault,
         << ScatterBounds(Range(Fl(0), Fl(1)), Range(Fl(-2), Fl(3))) >>),
    Plot(AxisDefault, AxisDefault,
         << ScatterBounds(Range(Fl(0), Fl(1)), Range(Fl(-2), Fl(3))), Err >>),
    Plot(AxisDefault, AxisDefault,
         << ScatterBounds(Range(Fl(0), Fl(1)), Range(Fl(-2), Fl(3))),
            BarChartBounds(Column(2), 10) >>) }

\* the sizes the window system reports; a minimised window has size 0
WindowSizes == {PixelSize(0, 0), PixelSize(0, 200), PixelSize(400, 200), PixelSize(1000, 1000)}

\* what Surface::get_current_texture can return
FrameResults == {"Ok", "Lost", "Other"}

WindowIdle ==
  /\ wPlot = Plot(AxisDefault, AxisDefault, <<>>)
  /\ wInit = FALSE
  /\ wConfig = PixelSize(0, 0)
  /\ wStale = TRUE
  /\ wRender = FALSE
  /\ wScene = <<>>
  /\ wSize = Size(Fl(1000), Fl(1000))
  /\ wHanded = None
  /\ wTexture = None
  /\ wScreen = None
  /\ wStatus = "running"
  /\ wLast = Handled("none", FALSE, "-", "-")
  /\ wDrawn = FALSE
  /\ wResized = FALSE

\* the state of the nice-tick variables when another component is exercised
NiceIdle ==
  /\ ntRange = Range(Fl(0), Fl(1))
  /\ ntCount = 1
  /\ ntIter = NoIter
  /\ ntOut = <<>>
  /\ ntPc = "start"

FixedIdle ==
  /\ ftRange = Range(Fl(0), Fl(1))
  /\ ftCount = 0
  /\ ftIter = NoFixedIter
  /\ ftOut = <<>>
  /\ ftPc = "start"

(***************************************************************************)
(* Range::nice_ticks and its iterator, applied to bounded inputs           *)
(***************************************************************************)
NiceStart ==
  /\ ntRange \in {Range(a, b) : a \in NiceEnds, b \in NiceEnds}
  /\ FLt(ntRange.min, ntRange.max)
  /\ ntCount \in NiceCounts
  /\ ntIter = NoIter
  /\ ntOut = <<>>
  /\ ntPc = "start"

NiceTicksCall ==
  /\ ntPc = "start"
  /\ ntIter' = nice_ticks(ntRange, ntCount)
  /\ ntPc' = "iter"
  /\ UNCHANGED <<ntRange, ntCount, ntOut>>

NiceNextSome ==
  /\ ntPc = "iter"
  /\ NiceHasNext(ntIter)
  /\ ntOut' = Append(ntOut, NiceValue(ntIter))
  /\ ntIter' = [ntIter EXCEPT !.current = FAdd(ntIter.current, ntIter.step)]
  /\ UNCHANGED <<ntRange, ntCount, ntPc>>

NiceNextNone ==
  /\ ntPc = "iter"
  /\ ~NiceHasNext(ntIter)
  /\ ntPc' = "done"
  /\ UNCHANGED <<ntRange, ntCount, ntIter, ntOut>>

NiceNext ==
  \/ NiceTicksCall /\ UNCHANGED notNice
  \/ NiceNextSome /\ UNCHANGED notNice
  \/ NiceNextNone /\ UNCHANGED notNice

NiceInit ==
  /\ NiceStart
  /\ FixedIdle
  /\ AxisIdle
  /\ UnionIdle
  /\ PlotIdle
  /\ TransformIdle
  /\ LawsIdle
  /\ TicksIdle
  /\ DrawIdle
  /\ WindowIdle
  /\ ShrinkIdle
  /\ ScatterIdle

SpecNice == NiceInit /\ [][NiceNext]_vars

(***************************************************************************)
(* FixedTicksIter::new and its iterator, applied to bounded inputs         *)
(***************************************************************************)
FixedStart ==
  /\ ftRange \in {Range(a, b) : a \in NiceEnds, b \in NiceEnds}
  /\ ftCount \in FixedCounts
  /\ ftIter = NoFixedIter
  /\ ftOut = <<>>
  /\ ftPc = "start"

FixedNewCall ==
  /\ ftPc = "start"
  /\ ftIter' = FixedTicksIterNew(ftRange, ftCount)
  /\ ftPc' = "iter"
  /\ UNCHANGED <<ftRange, ftCount, ftOut>>

FixedNextSome ==
  /\ ftPc = "iter"
  /\ FixedHasNext(ftIter)
  /\ ftOut' = Append(ftOut, FixedValue(ftIter))
  /\ ftIter' = [ftIter EXCEPT !.current = ftIter.current + 1]
  /\ UNCHANGED <<ftRange, ftCount, ftPc>>

FixedNextNone ==
  /\ ftPc = "iter"
  /\ ~FixedHasNext(ftIter)
  /\ ftPc' = "done"
  /\ UNCHANGED <<ftRange, ftCount, ftIter, ftOut>>

FixedNext ==
  \/ FixedNewCall /\ UNCHANGED notFixed
  \/ FixedNextSome /\ UNCHANGED notFixed
  \/ FixedNextNone /\ UNCHANGED notFixed

FixedInit ==
  /\ FixedStart
  /\ NiceIdle
  /\ AxisIdle
  /\ UnionIdle
  /\ PlotIdle
  /\ TransformIdle
  /\ LawsIdle
  /\ TicksIdle
  /\ DrawIdle
  /\ WindowIdle
  /\ ShrinkIdle
  /\ ScatterIdle

SpecFixed == FixedInit /\ [][FixedNext]_vars

(***************************************************************************)
(* Axis: the builder-style setters and pretty_range                        *)
(***************************************************************************)
\* Axis::min
AxisSetMin(v) ==
  /\ prPc = "idle"
  /\ axis' = [axis EXCEPT !.min = Some(v)]
  /\ UNCHANGED <<prIn, prOut, prPc>>

\* Axis::max
AxisSetMax(v) ==
  /\ prPc = "idle"
  /\ axis' = [axis EXCEPT !.max = Some(v)]
  /\ UNCHANGED <<prIn, prOut, prPc>>

\* Axis::margin
AxisSetMargin(m) ==
  /\ prPc = "idle"
  /\ axis' = [axis EXCEPT !.margin = m]
  /\ UNCHANGED <<prIn, prOut, prPc>>

\* Axis::ticks_fixed
AxisTicksFixed(n) ==
  /\ prPc = "idle"
  /\ axis' = [axis EXCEPT !.ticks = TicksFixed(n)]
  /\ UNCHANGED <<prIn, prOut, prPc>>

\* Axis::log_scale
AxisLogScale ==
  /\ prPc = "idle"
  /\ axis' = [axis EXCEPT !.scale = "Logarithmic"]
  /\ UNCHANGED <<prIn, prOut, prPc>>

\* Axis::pretty_range(&self, r): the call borrows the axis until it returns
PrettyRangeCall(r) ==
  /\ prPc = "idle"
  /\ PrettyExact(axis, r)
  /\ prIn' = r
  /\ prOut' = pretty_range(axis, r)
  /\ prPc' = "returned"
  /\ UNCHANGED axis

\* the caller drops the result
PrettyRangeReturn ==
  /\ prPc = "returned"
  /\ prIn' = FromRange(Range(Fl(0), Fl(1)))
  /\ prOut' = Range(NaN, NaN)
  /\ prPc' = "idle"
  /\ UNCHANGED axis

AxisNext ==
  \/ \E v \in AxisMins : AxisSetMin(v) /\ UNCHANGED notAxis
  \/ \E v \in AxisMaxs : AxisSetMax(v) /\ UNCHANGED notAxis
  \/ \E m \in AxisMargins : AxisSetMargin(m) /\ UNCHANGED notAxis
  \/ \E n \in FixedCounts : AxisTicksFixed(n) /\ UNCHANGED notAxis
  \/ AxisLogScale /\ UNCHANGED notAxis
  \/ \E r \in ContinuousRanges({"Absolute"}) \cup CategoricalRanges :
       PrettyRangeCall(r) /\ UNCHANGED notAxis
  \/ PrettyRangeReturn /\ UNCHANGED notAxis

AxisInit ==
  /\ AxisIdle
  /\ NiceIdle
  /\ FixedIdle
  /\ UnionIdle
  /\ PlotIdle
  /\ TransformIdle
  /\ LawsIdle
  /\ TicksIdle
  /\ DrawIdle
  /\ WindowIdle
  /\ ShrinkIdle
  /\ ScatterIdle

SpecAxis == AxisInit /\ [][AxisNext]_vars

(***************************************************************************)
(* Range::union, applied to bounded inputs                                 *)
(***************************************************************************)
UnionStart ==
  /\ unA \in UnionRanges
  /\ unB \in UnionRanges
  /\ unOut = Range(NaN, NaN)
  /\ unPc = "start"

UnionCall ==
  /\ unPc = "start"
  /\ unOut' = RangeUnion(unA, unB)
  /\ unPc' = "done"
  /\ UNCHANGED <<unA, unB>>

UnionNext == UnionCall /\ UNCHANGED notUnion

UnionInit ==
  /\ UnionStart
  /\ NiceIdle
  /\ FixedIdle
  /\ AxisIdle
  /\ PlotIdle
  /\ TransformIdle
  /\ LawsIdle
  /\ TicksIdle
  /\ DrawIdle
  /\ WindowIdle
  /\ ShrinkIdle
  /\ ScatterIdle

SpecUnion == UnionInit /\ [][UnionNext]_vars

(***************************************************************************)
(* Range::union applied to three ranges in both groupings and to two       *)
(* ranges in both orders                                                   *)
(***************************************************************************)
LawsStart ==
  /\ ulA \in UnionRanges
  /\ ulB \in UnionRanges
  /\ ulC \in UnionRanges
  /\ ulAB = NoRange
  /\ ulBA = NoRange
  /\ ulBC = NoRange
  /\ ulLeft = NoRange
  /\ ulRight = NoRange
  /\ ulPc = 0

\* a.union(b)
LawsUnionAB ==
  /\ ulPc = 0
  /\ ulAB' = RangeUnion(ulA, ulB)
  /\ ulPc' = 1
  /\ UNCHANGED <<ulA, ulB, ulC, ulBA, ulBC, ulLeft, ulRight>>

\* (a.union(b)).union(c)
LawsUnionLeft ==
  /\ ulPc = 1
  /\ ulLeft' = RangeUnion(ulAB, ulC)
  /\ ulPc' = 2
  /\ UNCHANGED <<ulA, ulB, ulC, ulAB, ulBA, ulBC, ulRight>>

\* b.union(c)
LawsUnionBC ==
  /\ ulPc = 2
  /\ ulBC' = RangeUnion(ulB, ulC)
  /\ ulPc' = 3
  /\ UNCHANGED <<ulA, ulB, ulC, ulAB, ulBA, ulLeft, ulRight>>

\* a.union(b.union(c))
LawsUnionRight ==
  /\ ulPc = 3
  /\ ulRight' = RangeUnion(ulA, ulBC)
  /\ ulPc' = 4
  /\ UNCHANGED <<ulA, ulB, ulC, ulAB, ulBA, ulBC, ulLeft>>

\* b.union(a)
LawsUnionBA ==
  /\ ulPc = 4
  /\ ulBA' = RangeUnion(ulB, ulA)
  /\ ulPc' = 5
  /\ UNCHANGED <<ulA, ulB, ulC, ulAB, ulBC, ulLeft, ulRight>>

LawsNext ==
  \/ LawsUnionAB /\ UNCHANGED notLaws
  \/ LawsUnionLeft /\ UNCHANGED notLaws
  \/ LawsUnionBC /\ UNCHANGED notLaws
  \/ LawsUnionRight /\ UNCHANGED notLaws
  \/ LawsUnionBA /\ UNCHANGED notLaws

LawsInit ==
  /\ LawsStart
  /\ NiceIdle
  /\ FixedIdle
  /\ AxisIdle
  /\ UnionIdle
  /\ PlotIdle
  /\ TransformIdle
  /\ TicksIdle
  /\ DrawIdle
  /\ WindowIdle
  /\ ShrinkIdle
  /\ ScatterIdle

SpecLaws == LawsInit /\ [][LawsNext]_vars

(***************************************************************************)
(* Plot: adding series, and Plot::bounds                                   *)
(***************************************************************************)
\* Plot::scatter, Plot::line, Plot::histogram, Plot::bar_chart: push a series
AddSeries(s) ==
  /\ bPc = "idle"
  /\ Len(series) < MaxSeries
  /\ series' = Append(series, s)
  /\ UNCHANGED <<bPc, bIdx, bAcc, bCall, bLogged, bOut>>

\* Plot::bounds is entered
BoundsCall ==
  /\ bPc = "idle"
  /\ bPc' = "loop"
  /\ UNCHANGED <<series, bIdx, bAcc, bCall, bLogged, bOut>>

\* a bug Plot::bounds could have: the error is propagated, not skipped
BoundsSkipAbort ==
  /\ bPc = "loop"
  /\ bIdx <= Len(series)
  /\ ~series[bIdx].ok
  /\ bLogged' = bLogged + 1
  /\ bPc' = "panicked"
  /\ bCall' = NoCall
  /\ UNCHANGED <<series, bIdx, bAcc, bOut>>

\* one iteration of the for loop, on a series whose data_bounds() failed
BoundsSkip ==
  /\ bPc = "loop"
  /\ bIdx <= Len(series)
  /\ ~series[bIdx].ok
  /\ bLogged' = bLogged + 1
  /\ bIdx' = bIdx + 1
  /\ bCall' = NoCall
  /\ UNCHANGED <<series, bPc, bAcc, bOut>>

\* one iteration of the for loop, on the first series whose data_bounds() worked
BoundsFirst ==
  /\ bPc = "loop"
  /\ bIdx <= Len(series)
  /\ series[bIdx].ok
  /\ bAcc = None
  /\ bAcc' = Some(DataBounds(series[bIdx].x, series[bIdx].y))
  /\ bIdx' = bIdx + 1
  /\ bCall' = NoCall
  /\ UNCHANGED <<series, bPc, bLogged, bOut>>

\* one iteration of the for loop, on a later series whose data_bounds() worked
BoundsUnion ==
  /\ bPc = "loop"
  /\ bIdx <= Len(series)
  /\ series[bIdx].ok
  /\ bAcc # None
  /\ LET bound == DataBounds(series[bIdx].x, series[bIdx].y)
         u == union_bounds(bAcc[1], bound)
     IN  /\ bCall' = [called |-> TRUE, a |-> bAcc[1], b |-> bound, out |-> u]
         /\ IF u = PanicBounds
              THEN bPc' = "panicked" /\ UNCHANGED <<bAcc, bIdx>>
              ELSE bAcc' = Some(u) /\ bIdx' = bIdx + 1 /\ UNCHANGED bPc
  /\ UNCHANGED <<series, bLogged, bOut>>

\* the loop is over: bounds.unwrap_or(default)
BoundsReturn ==
  /\ bPc = "loop"
  /\ bIdx > Len(series)
  /\ bOut' = UnwrapOr(bAcc, DefaultBounds)
  /\ bPc' = "returned"
  /\ UNCHANGED <<series, bIdx, bAcc, bCall, bLogged>>

\* the caller drops the result
BoundsDrop ==
  /\ bPc = "returned"
  /\ bPc' = "idle"
  /\ bIdx' = 1
  /\ bAcc' = None
  /\ bCall' = NoCall
  /\ bLogged' = 0
  /\ bOut' = PanicBounds
  /\ UNCHANGED series

PlotNext ==
  \/ \E s \in SeriesChoices : AddSeries(s) /\ UNCHANGED notPlot
  \/ BoundsCall /\ UNCHANGED notPlot
  \/ BoundsSkip /\ UNCHANGED notPlot
  \/ BoundsFirst /\ UNCHANGED notPlot
  \/ BoundsUnion /\ UNCHANGED notPlot
  \/ BoundsReturn /\ UNCHANGED notPlot
  \/ BoundsDrop /\ UNCHANGED notPlot

PlotInit ==
  /\ PlotIdle
  /\ NiceIdle
  /\ FixedIdle
  /\ AxisIdle
  /\ UnionIdle
  /\ TransformIdle
  /\ LawsIdle
  /\ TicksIdle
  /\ DrawIdle
  /\ WindowIdle
  /\ ShrinkIdle
  /\ ScatterIdle

SpecPlot == PlotInit /\ [][PlotNext]_vars

(***************************************************************************)
(* Bounds::transform_to, applied to bounded inputs, and the map it returns *)
(* applied to points                                                       *)
(***************************************************************************)
TransformStart ==
  /\ tfFrom \in {Bounds(x, y) : x \in TfRanges, y \in TfRanges}
  /\ tfTo \in TfViewports
  /\ tfOut = NoAffine
  /\ tfPt = Point(NaN, NaN)
  /\ tfImg = Point(NaN, NaN)
  /\ tfPc = "start"

TransformCall ==
  /\ tfPc = "start"
  /\ tfOut' = TransformTo(tfFrom, tfTo)
  /\ tfPc' = "made"
  /\ UNCHANGED <<tfFrom, tfTo, tfPt, tfImg>>

\* transform * Point::new(x, y)
TransformPoint(p) ==
  /\ tfPc \in {"made", "applied"}
  /\ tfPt' = p
  /\ tfImg' = AffineApply(tfOut, p)
  /\ tfPc' = "applied"
  /\ UNCHANGED <<tfFrom, tfTo, tfOut>>

TransformNext ==
  \/ TransformCall /\ UNCHANGED notTransform
  \/ \E x \in TfEnds, y \in TfEnds : TransformPoint(Point(x, y)) /\ UNCHANGED notTransform

TransformInit ==
  /\ TransformStart
  /\ NiceIdle
  /\ FixedIdle
  /\ AxisIdle
  /\ UnionIdle
  /\ PlotIdle
  /\ LawsIdle
  /\ TicksIdle
  /\ DrawIdle
  /\ WindowIdle
  /\ ShrinkIdle
  /\ ScatterIdle

SpecTransform == TransformInit /\ [][TransformNext]_vars

(***************************************************************************)
(* Bounds::shrink_by and Bounds::expand_by, applied to bounded inputs       *)
(***************************************************************************)
ShrinkStart ==
  /\ sbIn \in {Bounds(x, y) : x \in TfRanges, y \in TfRanges}
  /\ sbFract \in ShrinkFracts
  /\ sbShrunk = NoBounds
  /\ sbExpanded = NoBounds
  /\ sbPc = "start"

\* b.shrink_by(fract)
ShrinkByCall ==
  /\ sbPc \in {"start", "expanded"}
  /\ sbShrunk' = BoundsShrinkBy(sbIn, sbFract)
  /\ sbPc' = IF sbPc = "start" THEN "shrunk" ELSE "both"
  /\ UNCHANGED <<sbIn, sbFract, sbExpanded>>

\* b.expand_by(-fract)
ExpandByCall ==
  /\ sbPc \in {"start", "shrunk"}
  /\ sbExpanded' = BoundsExpandBy(sbIn, FNeg(sbFract))
  /\ sbPc' = IF sbPc = "start" THEN "expanded" ELSE "both"
  /\ UNCHANGED <<sbIn, sbFract, sbShrunk>>

ShrinkNext ==
  \/ ShrinkByCall /\ UNCHANGED notShrink
  \/ ExpandByCall /\ UNCHANGED notShrink

ShrinkInit ==
  /\ ShrinkStart
  /\ NiceIdle
  /\ FixedIdle
  /\ AxisIdle
  /\ UnionIdle
  /\ PlotIdle
  /\ TransformIdle
  /\ LawsIdle
  /\ TicksIdle
  /\ DrawIdle
  /\ WindowIdle
  /\ ScatterIdle

SpecShrink == ShrinkInit /\ [][ShrinkNext]_vars

(***************************************************************************)
(* ScatterAxes: the hue setters and draw                                   *)
(***************************************************************************)
\* ScatterAxes::new(x, y), on two columns of the same number of rows
ScatterStart ==
  /\ \E n \in 0..MaxRows : scX \in NumericColumns(n) /\ scY \in NumericColumns(n)
  /\ scHueColumn = None
  /\ scHueKeys = None
  /\ scFilled = <<>>
  /\ scPc = "built"

\* ScatterAxes::hue_from(column)
hue_from(column) ==
  /\ scPc = "built"
  /\ scHueColumn' = Some(column)
  /\ scHueKeys' = None
  /\ UNCHANGED <<scX, scY, scFilled, scPc>>

\* a bug hue_from_keys could have: the column is not stored
hue_from_keys_only(column, keys) ==
  /\ scPc = "built"
  /\ scHueKeys' = Some(keys)
  /\ UNCHANGED <<scX, scY, scHueColumn, scFilled, scPc>>

\* ScatterAxes::hue_from_keys(column, keys)
hue_from_keys(column, keys) ==
  /\ scPc = "built"
  /\ scHueColumn' = Some(column)
  /\ scHueKeys' = Some(keys)
  /\ UNCHANGED <<scX, scY, scFilled, scPc>>

\* ScatterAxes::draw; unique is whether unique_stable works on the hue column
ScatterDraw(unique) ==
  /\ scPc = "built"
  /\ scFilled' = scatter_draw(scX, scY, scHueColumn, scHueKeys, unique)
  /\ scPc' = IF scatter_draw(scX, scY, scHueColumn, scHueKeys, unique) = PanicFilled
               THEN "panicked" ELSE "drawn"
  /\ UNCHANGED <<scX, scY, scHueColumn, scHueKeys>>

\* draw has returned; the series can be drawn again
ScatterDrawReturn ==
  /\ scPc = "drawn"
  /\ scFilled' = <<>>
  /\ scPc' = "built"
  /\ UNCHANGED <<scX, scY, scHueColumn, scHueKeys>>

ScatterNext ==
  \/ \E column \in HueColumns(Len(scX)) : hue_from(column) /\ UNCHANGED notScatter
  \/ \E column \in HueColumns(Len(scX)), keys \in HueKeyLists :
       hue_from_keys(column, keys) /\ UNCHANGED notScatter
  \/ \E unique \in BOOLEAN : ScatterDraw(unique) /\ UNCHANGED notScatter
  \/ ScatterDrawReturn /\ UNCHANGED notScatter

ScatterInit ==
  /\ ScatterStart
  /\ NiceIdle
  /\ FixedIdle
  /\ AxisIdle
  /\ UnionIdle
  /\ PlotIdle
  /\ TransformIdle
  /\ LawsIdle
  /\ TicksIdle
  /\ DrawIdle
  /\ WindowIdle
  /\ ShrinkIdle

SpecScatter == ScatterInit /\ [][ScatterNext]_vars

(***************************************************************************)
(* Axis::iter_ticks and the TicksIter it returns                           *)
(***************************************************************************)
TicksStart ==
  /\ tkAxis \in TickAxes
  /\ tkRange \in TickRanges
  /\ tkIter = NoTicksIter
  /\ tkOut = <<>>
  /\ tkPc = "start"

IterTicksCall ==
  /\ tkPc = "start"
  /\ IterTicksExact(tkAxis, tkRange)
  /\ tkIter' = iter_ticks(tkAxis, tkRange, NiceTickCount)
  /\ tkPc' = "iter"
  /\ UNCHANGED <<tkAxis, tkRange, tkOut>>

TicksNextSome ==
  /\ tkPc = "iter"
  /\ TicksIterHasNext(tkIter)
  /\ tkOut' = Append(tkOut, TicksIterValue(tkIter))
  /\ tkIter' = TicksIterAdvance(tkIter)
  /\ UNCHANGED <<tkAxis, tkRange, tkPc>>

TicksNextNone ==
  /\ tkPc = "iter"
  /\ ~TicksIterHasNext(tkIter)
  /\ tkPc' = "done"
  /\ UNCHANGED <<tkAxis, tkRange, tkIter, tkOut>>

TicksNext ==
  \/ IterTicksCall /\ UNCHANGED notTicks
  \/ TicksNextSome /\ UNCHANGED notTicks
  \/ TicksNextNone /\ UNCHANGED notTicks

TicksInit ==
  /\ TicksStart
  /\ NiceIdle
  /\ FixedIdle
  /\ AxisIdle
  /\ UnionIdle
  /\ PlotIdle
  /\ TransformIdle
  /\ LawsIdle
  /\ DrawIdle
  /\ WindowIdle
  /\ ShrinkIdle
  /\ ScatterIdle

SpecTicks == TicksInit /\ [][TicksNext]_vars

(***************************************************************************)
(* Plot: building a plot, and one Plot::draw pass on a new Render          *)
(***************************************************************************)
dLocals == <<dIdx, dBounds, dPretty, dFrom, dTransform, dCalls>>

\* Plot::scatter, Plot::line, Plot::bar_chart: push a series
PlotAddSeries(s) ==
  /\ dPc = "idle"
  /\ Len(plAxes) < MaxDrawSeries
  /\ plAxes' = Append(plAxes, s)
  /\ UNCHANGED <<plX, plY, rdSize, scene, dPc, dLocals>>

\* a bug Plot::histogram could have: one tick per bin, not one per bin edge
PlotHistogramTickPerBin(bins) ==
  /\ dPc = "idle"
  /\ Len(plAxes) < MaxDrawSeries
  /\ plX' = [plX EXCEPT !.ticks = TicksFixed(bins)]
  /\ plAxes' = Append(plAxes, HistogramBounds(Range(Fl(-2), Fl(3)), 3))
  /\ UNCHANGED <<plY, rdSize, scene, dPc, dLocals>>

\* Plot::histogram: self.x.ticks_fixed(bins + 1), then push the series
PlotHistogram(bins) ==
  /\ dPc = "idle"
  /\ Len(plAxes) < MaxDrawSeries
  /\ plX' = [plX EXCEPT !.ticks = TicksFixed(bins + 1)]
  /\ plAxes' = Append(plAxes, HistogramBounds(Range(Fl(-2), Fl(3)), 3))
  /\ UNCHANGED <<plY, rdSize, scene, dPc, dLocals>>

\* plot.y.min(v)
PlotSetYMin(v) ==
  /\ dPc = "idle"
  /\ plY' = [plY EXCEPT !.min = Some(v)]
  /\ UNCHANGED <<plX, plAxes, rdSize, scene, dPc, dLocals>>

\* plot.y.ticks_fixed(n)
PlotYTicksFixed(n) ==
  /\ dPc = "idle"
  /\ plY' = [plY EXCEPT !.ticks = TicksFixed(n)]
  /\ UNCHANGED <<plX, plAxes, rdSize, scene, dPc, dLocals>>

\* Plot::render: Render::new(), and Plot::draw up to the border
DrawBegin(size) ==
  /\ dPc = "idle"
  /\ rdSize' = size
  /\ scene' = DrawBorder(<<>>)
  /\ dPc' = "bounds"
  /\ UNCHANGED <<plX, plY, plAxes, dLocals>>

\* let data_bounds = self.bounds()
DrawBounds ==
  /\ dPc = "bounds"
  /\ dBounds' = plot_bounds(plAxes)
  /\ dCalls' = [dCalls EXCEPT !.bounds = @ + 1]
  /\ dPc' = IF plot_bounds(plAxes) = PanicBounds THEN "panicked" ELSE "transform"
  /\ UNCHANGED <<plX, plY, plAxes, rdSize, scene, dIdx, dPretty, dFrom, dTransform>>

\* let transform = self.viewport_transform(data_bounds, viewport)
DrawTransform ==
  /\ dPc = "transform"
  /\ dPretty' = pretty_bounds(plX, plY, dBounds)
  /\ dFrom' = ViewportFrom(plX, plY, dBounds)
  /\ dTransform' = viewport_transform(plX, plY, dBounds, DrawViewport(rdSize))
  /\ dCalls' = [dCalls EXCEPT !.viewport_transform = @ + 1]
  /\ dPc' = "yticks"
  /\ UNCHANGED <<plX, plY, plAxes, rdSize, scene, dIdx, dBounds>>

\* the loop over self.y.iter_ticks(data_bounds.y, ticks)
DrawYTicksLoop ==
  /\ dPc = "yticks"
  /\ scene' = DrawYTicks(scene, plY, dBounds, dTransform, DrawViewport(rdSize))
  /\ dPc' = "xticks"
  /\ UNCHANGED <<plX, plY, plAxes, rdSize, dLocals>>

\* the loop over self.x.iter_ticks(data_bounds.x, ticks)
DrawXTicksLoop ==
  /\ dPc = "xticks"
  /\ scene' = DrawXTicks(scene, plX, dBounds, dTransform, DrawViewport(rdSize))
  /\ dPc' = "series"
  /\ UNCHANGED <<plX, plY, plAxes, rdSize, dLocals>>

\* a bug Plot::draw could have: a series whose data_bounds failed is not drawn
DrawSeriesStepSkipFailed ==
  /\ dPc = "series"
  /\ dIdx <= Len(plAxes)
  /\ scene' = IF plAxes[dIdx].ok THEN DrawOneSeries(scene, dIdx, dTransform) ELSE scene
  /\ dIdx' = dIdx + 1
  /\ UNCHANGED <<plX, plY, plAxes, rdSize, dPc, dBounds, dPretty, dFrom, dTransform, dCalls>>

\* one iteration of for axes in &self.axes { axes.draw(render, transform) }
DrawSeriesStep ==
  /\ dPc = "series"
  /\ dIdx <= Len(plAxes)
  /\ scene' = DrawOneSeries(scene, dIdx, dTransform)
  /\ dIdx' = dIdx + 1
  /\ UNCHANGED <<plX, plY, plAxes, rdSize, dPc, dBounds, dPretty, dFrom, dTransform, dCalls>>

\* the loop is over: self.draw_legend(render, viewport)
DrawLegendStep ==
  /\ dPc = "series"
  /\ dIdx > Len(plAxes)
  /\ scene' = DrawLegend(scene)
  /\ dPc' = "done"
  /\ UNCHANGED <<plX, plY, plAxes, rdSize, dLocals>>

\* Plot::render returns: the Render and the locals of the pass are dropped
DrawReturn ==
  /\ dPc = "done"
  /\ scene' = <<>>
  /\ dPc' = "idle"
  /\ dIdx' = 1
  /\ dBounds' = PanicBounds
  /\ dPretty' = Bounds(NoRange, NoRange)
  /\ dFrom' = Bounds(NoRange, NoRange)
  /\ dTransform' = NoTransform
  /\ dCalls' = NoCalls
  /\ UNCHANGED <<plX, plY, plAxes, rdSize>>

DrawNext ==
  \/ \E s \in DrawSeriesChoices : PlotAddSeries(s) /\ UNCHANGED notDraw
  \/ \E bins \in HistogramBins : PlotHistogram(bins) /\ UNCHANGED notDraw
  \/ \E v \in AxisMins : PlotSetYMin(v) /\ UNCHANGED notDraw
  \/ \E n \in {3} : PlotYTicksFixed(n) /\ UNCHANGED notDraw
  \/ \E size \in RenderSizes : DrawBegin(size) /\ UNCHANGED notDraw
  \/ DrawBounds /\ UNCHANGED notDraw
  \/ DrawTransform /\ UNCHANGED notDraw
  \/ DrawYTicksLoop /\ UNCHANGED notDraw
  \/ DrawXTicksLoop /\ UNCHANGED notDraw
  \/ DrawSeriesStep /\ UNCHANGED notDraw
  \/ DrawLegendStep /\ UNCHANGED notDraw
  \/ DrawReturn /\ UNCHANGED notDraw

DrawInit ==
  /\ DrawIdle
  /\ NiceIdle
  /\ FixedIdle
  /\ AxisIdle
  /\ UnionIdle
  /\ PlotIdle
  /\ TransformIdle
  /\ LawsIdle
  /\ TicksIdle
  /\ WindowIdle
  /\ ShrinkIdle
  /\ ScatterIdle

SpecDraw == DrawInit /\ [][DrawNext]_vars

(***************************************************************************)
(* The interactive window: show() and the handlers of the event loop       *)
(***************************************************************************)
\* show(): App { plot, stale: true, render: None, init: None }
WindowStart ==
  /\ wPlot \in WindowPlots
  /\ wInit = FALSE
  /\ wConfig = PixelSize(0, 0)
  /\ wStale = TRUE
  /\ wRender = FALSE
  /\ wScene = <<>>
  /\ wSize = Size(Fl(1000), Fl(1000))
  /\ wHanded = None
  /\ wTexture = None
  /\ wScreen = None
  /\ wStatus = "running"
  /\ wLast = Handled("none", FALSE, "-", "-")
  /\ wDrawn = FALSE
  /\ wResized = FALSE

\* ApplicationHandler::resumed, the window reporting the inner size `size`
WinResumed(size) ==
  /\ wStatus = "running"
  /\ IF wInit
       THEN UNCHANGED <<wInit, wConfig>>
       ELSE /\ wInit' = TRUE
            /\ wConfig' = PixelSize(IMax(size.width, 1), IMax(size.height, 1))
  /\ wLast' = Handled("resumed", FALSE, "-", "-")
  /\ UNCHANGED <<wPlot, wStale, wRender, wScene, wSize, wHanded, wTexture, wScreen, wStatus>>
  /\ UNCHANGED <<wDrawn, wResized>>

\* a bug the Resized handler could have: a size with width 0 or height 0 is
\* taken over like any other
WinResizedAnySize(new_size) ==
  /\ wStatus = "running"
  /\ IF wInit
       THEN wConfig' = new_size /\ wStale' = TRUE
       ELSE UNCHANGED <<wConfig, wStale>>
  /\ wLast' = Handled("resized", FALSE, "-", "-")
  /\ wResized' = (wResized \/ (new_size.width > 0 /\ new_size.height > 0))
  /\ UNCHANGED <<wPlot, wInit, wRender, wScene, wSize, wHanded, wTexture, wScreen, wStatus>>
  /\ UNCHANGED wDrawn

\* WindowEvent::Resized(new_size)
WinResized(new_size) ==
  /\ wStatus = "running"
  /\ IF wInit /\ new_size.width > 0 /\ new_size.height > 0
       THEN wConfig' = new_size /\ wStale' = TRUE
       ELSE UNCHANGED <<wConfig, wStale>>
  /\ wLast' = Handled("resized", FALSE, "-", "-")
  /\ wResized' = (wResized \/ (new_size.width > 0 /\ new_size.height > 0))
  /\ UNCHANGED <<wPlot, wInit, wRender, wScene, wSize, wHanded, wTexture, wScreen, wStatus>>
  /\ UNCHANGED wDrawn

\* WindowEvent::RedrawRequested; `size` is what render.size() returns to the
\* draw pass, `rendered` whether render_to_texture succeeds and `frame` what
\* get_current_texture returns
WinRedrawRequested(size, rendered, frame) ==
  /\ wStatus = "running"
  /\ IF ~wInit
       THEN /\ wLast' = Handled("redraw", FALSE, "-", "-")
            /\ UNCHANGED <<wStale, wRender, wScene, wSize, wHanded, wTexture, wScreen, wStatus>>
            /\ UNCHANGED <<wDrawn, wResized>>
       ELSE IF ~wRender \/ wStale
         THEN LET sc == plot_draw(wPlot.x, wPlot.y, wPlot.axes, size, SceneReset(wScene))
              IN  /\ wStale' = FALSE
                  /\ wRender' = TRUE
                  /\ wSize' = size
                  /\ wScene' = sc
                  /\ wDrawn' = TRUE
                  /\ wResized' = FALSE
                  /\ IF sc = PanicScene
                       THEN /\ wStatus' = "panicked"
                            /\ wLast' = Handled("redraw", TRUE, "-", "-")
                            /\ UNCHANGED <<wHanded, wTexture, wScreen>>
                       ELSE /\ wHanded' = Some(sc)
                            /\ IF rendered
                                 THEN /\ wTexture' = Some(sc)
                                      /\ wScreen' = InitRedraw(frame, Some(sc), wScreen)
                                      /\ wLast' = Handled("redraw", TRUE, "Ok", frame)
                                      /\ UNCHANGED wStatus
                                 ELSE /\ wStatus' = "panicked"
                                      /\ wLast' = Handled("redraw", TRUE, "Err", "-")
                                      /\ UNCHANGED <<wTexture, wScreen>>
         ELSE /\ wScreen' = InitRedraw(frame, wTexture, wScreen)
              /\ wLast' = Handled("redraw", FALSE, "-", frame)
              /\ UNCHANGED <<wStale, wRender, wScene, wSize, wHanded, wTexture, wStatus>>
              /\ UNCHANGED <<wDrawn, wResized>>
  /\ UNCHANGED <<wPlot, wInit, wConfig>>

\* WindowEvent::CloseRequested, and the key "q": event_loop.exit()
WinExit ==
  /\ wStatus = "running"
  /\ wStatus' = "exited"
  /\ wLast' = Handled("exit", FALSE, "-", "-")
  /\ UNCHANGED <<wPlot, wInit, wConfig, wStale, wRender, wScene, wSize, wHanded, wTexture, wScreen>>
  /\ UNCHANGED <<wDrawn, wResized>>

\* any other WindowEvent: the `_ => ()` arm
WinOtherEvent ==
  /\ wStatus = "running"
  /\ wLast' = Handled("other", FALSE, "-", "-")
  /\ UNCHANGED <<wPlot, wInit, wConfig, wStale, wRender, wScene, wSize, wHanded, wTexture, wScreen, wStatus>>
  /\ UNCHANGED <<wDrawn, wResized>>

WindowNext ==
  \/ \E size \in WindowSizes : WinResumed(size) /\ UNCHANGED notWindow
  \/ \E new_size \in WindowSizes : WinResized(new_size) /\ UNCHANGED notWindow
  \/ \E size \in RenderSizes, rendered \in BOOLEAN, frame \in FrameResults :
       WinRedrawRequested(size, rendered, frame) /\ UNCHANGED notWindow
  \/ WinExit /\ UNCHANGED notWindow
  \/ WinOtherEvent /\ UNCHANGED notWindow

WindowInit ==
  /\ WindowStart
  /\ NiceIdle
  /\ FixedIdle
  /\ AxisIdle
  /\ UnionIdle
  /\ PlotIdle
  /\ TransformIdle
  /\ LawsIdle
  /\ TicksIdle
  /\ DrawIdle
  /\ ShrinkIdle
  /\ ScatterIdle

SpecWindow == WindowInit /\ [][WindowNext]_vars

(***************************************************************************)
(* Claims about Range::nice_ticks                                          *)
(***************************************************************************)
Canon == {Fl(1), Fl(2), Q(5, 2), Fl(5), Fl(10)}

\* the smallest canonical multiplier that is >= base
SmallestCanonGE(base) ==
  CHOOSE m \in Canon :
    /\ FLe(base, m)
    /\ \A m2 \in Canon : FLe(base, m2) => FLe(m, m2)

\* C1: for min < max and count >= 1 the multiplier nice_ticks chooses is the
\* smallest member of {1, 2, 2.5, 5, 10} that is >= base, for every base in
\* [1, 10), the canonical values 1, 2, 2.5 and 5 included: the step of the
\* iterator is that multiplier times 10^k.
C1_MultiplierIsSmallestGE ==
  ntPc # "start" =>
    /\ FLe(Fl(1), NiceRawBase(ntRange, ntCount))
    /\ FLt(NiceRawBase(ntRange, ntCount), Fl(10))
    /\ ntIter.step = FMul(SmallestCanonGE(NiceRawBase(ntRange, ntCount)),
                          FPowf10(NiceK(ntRange, ntCount)))

\* the values lo, lo + step, ..., hi
RECURSIVE Ladder(_, _, _)
Ladder(lo, hi, step) ==
  IF FLt(hi, lo) THEN <<>> ELSE <<lo>> \o Ladder(FAdd(lo, step), hi, step)

IsPrefix(s, t) == Len(s) <= Len(t) /\ \A i \in 1..Len(s) : s[i] = t[i]

C2_Lo == FMul(FFloor(FDiv(ntRange.min, ntIter.step)), ntIter.step)
C2_Hi == FMul(FCeil(FDiv(ntRange.max, ntIter.step)), ntIter.step)

\* C2: iterating nice_ticks(count) yields exactly lo, lo + step, ..., hi in
\* increasing order and then stops, with lo = floor(min/step)*step and
\* hi = ceil(max/step)*step; the first tick is <= min, the last is >= max,
\* every tick lies in [lo - step/2, hi + step/2]; Range(0, 97) with count 10
\* gives step 10 and the ticks 0, 10, ..., 100.
C2_TicksAreLadder ==
  ntPc # "start" =>
    /\ IsPrefix(ntOut, Ladder(C2_Lo, C2_Hi, ntIter.step))
    /\ \A i \in 1..Len(ntOut) :
         /\ FLe(FSub(C2_Lo, FMul(ntIter.step, Q(1, 2))), ntOut[i])
         /\ FLe(ntOut[i], FAdd(C2_Hi, FMul(ntIter.step, Q(1, 2))))
    /\ \A i \in 1..(Len(ntOut) - 1) : FLt(ntOut[i], ntOut[i + 1])
    /\ ntPc = "done" =>
         /\ ntOut = Ladder(C2_Lo, C2_Hi, ntIter.step)
         /\ FLe(ntOut[1], ntRange.min)
         /\ FLe(ntRange.max, ntOut[Len(ntOut)])
         /\ (ntRange = Range(Fl(0), Fl(97)) /\ ntCount = 10) =>
              /\ ntIter.step = Fl(10)
              /\ ntOut = [i \in 1..11 |-> Fl(10 * (i - 1))]

C2_Witness ==
  /\ ntPc = "done"
  /\ ntRange = Range(Fl(0), Fl(97))
  /\ ntCount = 10
  /\ Len(ntOut) = 11

(***************************************************************************)
(* Claims about FixedTicksIter                                             *)
(***************************************************************************)
\* min + i * (max - min) / (n - 1)
C3_Even(r, n, i) ==
  FAdd(r.min, FDiv(FMul(Fl(i), FSub(r.max, r.min)), Fl(n - 1)))

\* C3: for every range and every count n >= 2, FixedTicksIter::new(range, n)
\* yields exactly n values and then None, the i-th (0-based) being
\* min + i*(max - min)/(n - 1), the first min and the last max; Range(0, 1)
\* with n = 5 gives 0, 0.25, 0.5, 0.75, 1 and Range(0, 2) with n = 5 gives
\* 0, 0.5, 1, 1.5, 2.
C3_FixedTicksEven ==
  (ftPc # "start" /\ ftCount >= 2) =>
    /\ Len(ftOut) <= ftCount
    /\ \A i \in 1..Len(ftOut) : ftOut[i] = C3_Even(ftRange, ftCount, i - 1)
    /\ ftPc = "done" =>
         /\ Len(ftOut) = ftCount
         /\ ftOut[1] = ftRange.min
         /\ ftOut[ftCount] = ftRange.max
         /\ (ftRange = Range(Fl(0), Fl(1)) /\ ftCount = 5) =>
              ftOut = <<Fl(0), Q(1, 4), Q(1, 2), Q(3, 4), Fl(1)>>
         /\ (ftRange = Range(Fl(0), Fl(2)) /\ ftCount = 5) =>
              ftOut = <<Fl(0), Q(1, 2), Fl(1), Q(3, 2), Fl(2)>>

C3_Witness ==
  /\ ftPc = "done"
  /\ ftRange = Range(Fl(0), Fl(2))
  /\ ftCount = 5
  /\ Len(ftOut) = 5

\* C14: FixedTicksIter::new(range, 1) performs no division by zero (its step
\* is a finite number) and yields exactly one tick, whose value is finite and
\* lies inside the range; with a count of 0 it yields no tick at all.
C14_FixedOneIsGuarded ==
  /\ (ftPc # "start" /\ ftCount = 1) => IsFinite(ftIter.step)
  /\ (ftPc = "done" /\ ftCount = 1) =>
       /\ Len(ftOut) = 1
       /\ IsFinite(ftOut[1])
       /\ RangeContains(ftRange, ftOut[1])
  /\ (ftPc = "done" /\ ftCount = 0) => ftOut = <<>>

(***************************************************************************)
(* Claims about Axis::pretty_range                                         *)
(***************************************************************************)
\* |(b - a) * m| for the data range [a, b] of the call and the axis margin m
C4_Amount == FAbs(FMul(FSub(prIn.range.max, prIn.range.min), axis.margin))

\* C4: for a Linear axis with margin m and no explicit min/max, and a
\* Continuous data range [a, b], a < b, with both margin flags set,
\* pretty_range returns [a - |(b-a)*m|, b + |(b-a)*m|]: both sides are
\* widened by the same amount, computed from the size of the data range.
C4_LinearMarginSymmetric ==
  ( /\ prPc = "returned"
    /\ axis.scale = "Linear" /\ axis.min = None /\ axis.max = None
    /\ prIn.kind = "Continuous" /\ prIn.margin_min /\ prIn.margin_max
    /\ FLt(prIn.range.min, prIn.range.max) ) =>
      prOut = Range(FSub(prIn.range.min, C4_Amount), FAdd(prIn.range.max, C4_Amount))

\* C5: pretty_range applies margin only on sides whose flag is set: for a
\* Continuous data range, with margin_min false and axis.min unset the
\* returned min is the data min, and with margin_max false and axis.max unset
\* the returned max is the data max, for every margin and both scales.
C5_NoMarginWithoutFlag ==
  (prPc = "returned" /\ prIn.kind = "Continuous") =>
    /\ (~prIn.margin_min /\ axis.min = None) => prOut.min = prIn.range.min
    /\ (~prIn.margin_max /\ axis.max = None) => prOut.max = prIn.range.max

\* a bar-chart y range [0, 10] (no margin below, margin above) on an axis with
\* a nonzero margin: the baseline stays at 0 and the top is widened
C5_Witness ==
  /\ prPc = "returned"
  /\ prIn = Continuous(Range(Fl(0), Fl(10)), "Absolute", FALSE, TRUE)
  /\ axis.min = None
  /\ axis.margin = Fl(1)
  /\ prOut.min = Fl(0)
  /\ prOut.max # Fl(10)

\* C6: for every Continuous data range, pretty_range returns min == axis.min
\* whenever axis.min has been set and max == axis.max whenever axis.max has
\* been set, for every combination of margin flags, margin value and scale.
C6_ExplicitOverrideWins ==
  (prPc = "returned" /\ prIn.kind = "Continuous") =>
    /\ axis.min # None => prOut.min = axis.min[1]
    /\ axis.max # None => prOut.max = axis.max[1]

C6_Witness ==
  /\ prPc = "returned"
  /\ prIn = Continuous(Range(Fl(1), Fl(10)), "Absolute", TRUE, TRUE)
  /\ axis.min = Some(Fl(-3)) /\ axis.max = Some(Fl(20))
  /\ axis.margin = Fl(1)
  /\ prOut = Range(Fl(-3), Fl(20))

\* C7: for a Categorical data range with N labels pretty_range returns
\* Range(-0.5, N - 0.5) (Range(-0.5, 3.5) for 4 categories), whatever the
\* margin, scale, tick strategy and explicit min/max of the axis are.
C7_CategoricalPretty ==
  (prPc = "returned" /\ prIn.kind = "Categorical") =>
    /\ prOut = Range(Q(-1, 2), Q(2 * Len(prIn.labels) - 1, 2))
    /\ Len(prIn.labels) = 4 => prOut = Range(Q(-1, 2), Q(7, 2))

C7_Witness ==
  /\ prPc = "returned"
  /\ prIn.kind = "Categorical" /\ Len(prIn.labels) = 4
  /\ axis.scale = "Logarithmic" /\ axis.margin = Fl(1)
  /\ axis.min # None /\ axis.max # None /\ axis.ticks.kind = "Fixed"
  /\ prOut = Range(Q(-1, 2), Q(7, 2))

(***************************************************************************)
(* Claims about Range::union                                               *)
(***************************************************************************)
\* C8: Range::union with exactly one zero-size operand returns the other
\* operand unchanged, whichever side the zero-size operand is on: if
\* a.size() == 0 then a.union(b) == b, and if b.size() == 0 and
\* a.size() != 0 then a.union(b) == a.
C8_UnionZeroSizeIdentity ==
  unPc = "done" =>
    /\ FEq(RangeSize(unA), Fl(0)) => unOut = unB
    /\ (FEq(RangeSize(unB), Fl(0)) /\ ~FEq(RangeSize(unA), Fl(0))) => unOut = unA

\* a zero-size `other` that lies outside self
C8_Witness ==
  /\ unPc = "done"
  /\ unA = Range(Fl(0), Fl(1))
  /\ unB = Range(Fl(2), Fl(2))
  /\ unOut = unA

\* C18: Range::union is associative: for all ranges a, b, c, inverted
\* (min > max) and zero-size ranges included, (a.union(b)).union(c) equals
\* a.union(b.union(c)).
C18_UnionAssociative == ulPc >= 4 => ulLeft = ulRight

\* C19: Range::union is commutative when both operands are non-degenerate:
\* for all a, b with a.size() != 0 and b.size() != 0, a.union(b) and
\* b.union(a) have the same min and the same max.
C19_UnionCommutative ==
  ( /\ ulPc = 5
    /\ ~FEq(RangeSize(ulA), Fl(0))
    /\ ~FEq(RangeSize(ulB), Fl(0)) ) =>
      /\ ulAB.min = ulBA.min
      /\ ulAB.max = ulBA.max

\* an ascending and an inverted range that overlap
C19_Witness ==
  /\ ulPc = 5
  /\ ulA = Range(Fl(0), Fl(2))
  /\ ulB = Range(Fl(1), Fl(-1))
  /\ ulAB = Range(Fl(0), Fl(2))
  /\ ulBA = ulAB

(***************************************************************************)
(* Claims about Plot::bounds and Plot::union_range                         *)
(***************************************************************************)
C9_IsOk(s) == s.ok

\* the series the loop has folded so far: those whose data_bounds() worked
C9_Contributing == SelectSeq(SubSeq(series, 1, bIdx - 1), C9_IsOk)

C9_AllContinuous(rs) == \A i \in 1..Len(rs) : rs[i].kind = "Continuous"

\* the left-to-right Range::union of the ranges of rs
RECURSIVE C9_FoldUnion(_)
C9_FoldUnion(rs) ==
  IF Len(rs) = 1 THEN rs[1].range
  ELSE RangeUnion(C9_FoldUnion(SubSeq(rs, 1, Len(rs) - 1)), rs[Len(rs)].range)

\* acc is the fold of the Continuous ranges rs
C9_IsFold(acc, rs) ==
  /\ acc.kind = "Continuous"
  /\ acc.margin_min = (\E i \in 1..Len(rs) : rs[i].margin_min)
  /\ acc.margin_max = (\E i \in 1..Len(rs) : rs[i].margin_max)
  /\ acc.range = C9_FoldUnion(rs)
  /\ acc.unit = rs[1].unit

\* C9: when Plot::bounds folds the Continuous ranges of the series whose
\* data_bounds succeeded, in insertion order, the resulting margin_min is the
\* OR of the contributing margin_min flags, margin_max the OR of the
\* margin_max flags, the range the left-to-right Range::union, and the unit
\* that of the first contributing series.
C9_FoldOfContinuous ==
  (bPc \in {"loop", "returned"} /\ Len(C9_Contributing) >= 1) =>
    LET xs == [i \in 1..Len(C9_Contributing) |-> C9_Contributing[i].x]
        ys == [i \in 1..Len(C9_Contributing) |-> C9_Contributing[i].y]
    IN  /\ bAcc # None
        /\ C9_AllContinuous(xs) => C9_IsFold(bAcc[1].x, xs)
        /\ C9_AllContinuous(ys) => C9_IsFold(bAcc[1].y, ys)
        /\ bPc = "returned" => bOut = bAcc[1]

\* a histogram (no margins, Absolute), a failing series and a Date/Duration
\* series (both margins): the unit is the histogram's, the margins are kept
C9_Witness ==
  /\ bPc = "returned"
  /\ series = << HistogramBounds(Range(Fl(-2), Fl(3)), 3),
                 Err,
                 Ok(FromColumn(Range(Fl(0), Fl(100)), "Date"),
                    FromColumn(Range(Fl(1), Fl(10)), "Duration")) >>
  /\ bOut.x = Continuous(Range(Fl(-2), Fl(100)), "Absolute", TRUE, TRUE)
  /\ bOut.y = Continuous(Range(Fl(0), Fl(10)), "Absolute", TRUE, TRUE)

C10_AnyCategorical(a, b) ==
  \/ a.x.kind = "Categorical" \/ b.x.kind = "Categorical"
  \/ a.y.kind = "Categorical" \/ b.y.kind = "Categorical"

\* C10: union_range panics whenever at least one operand is Categorical
\* (Categorical with Continuous, Continuous with Categorical, Categorical with
\* Categorical) and never returns a coerced DataRange; it returns a value
\* only when both operands are Continuous.
C10_CategoricalUnionPanics ==
  /\ bCall.called =>
       /\ C10_AnyCategorical(bCall.a, bCall.b) =>
            /\ bPc = "panicked"
            /\ bCall.out = PanicBounds
            /\ bAcc = Some(bCall.a)
       /\ ~C10_AnyCategorical(bCall.a, bCall.b) =>
            /\ bPc # "panicked"
            /\ bCall.out.x.kind = "Continuous"
            /\ bCall.out.y.kind = "Continuous"
            /\ bAcc = Some(bCall.out)
  /\ bPc = "panicked" => bCall.called

\* a scatter series followed by a bar chart: Continuous with Categorical
C10_Witness ==
  /\ bPc = "panicked"
  /\ bCall.called
  /\ bCall.a.x.kind = "Continuous"
  /\ bCall.b.x.kind = "Categorical"

(***************************************************************************)
(* Claims about Bounds::transform_to                                       *)
(***************************************************************************)
\* the point of the range `to` at the same relative place as v has in `from`
C15_Interpolate(from, to, v) ==
  FAdd(to.min, FDiv(FMul(FSub(v, from.min), RangeSize(to)), RangeSize(from)))

\* C15: for source bounds whose x and y sizes are nonzero, transform_to is the
\* per-axis map p -> p*scale + translate with scale = viewport.size/source.size
\* and translate = viewport.min - source.min*scale and no cross-axis terms; it
\* sends source.min to viewport.min and source.max to viewport.max on both
\* axes, also when the viewport range is inverted.
C15_TransformIsPerAxisMap ==
  ( /\ tfPc # "start"
    /\ ~IsZero(RangeSize(tfFrom.x))
    /\ ~IsZero(RangeSize(tfFrom.y)) ) =>
      /\ tfOut.b = Fl(0) /\ tfOut.c = Fl(0)
      /\ tfOut.a = FDiv(RangeSize(tfTo.x), RangeSize(tfFrom.x))
      /\ tfOut.d = FDiv(RangeSize(tfTo.y), RangeSize(tfFrom.y))
      /\ tfOut.e = FSub(tfTo.x.min, FMul(tfFrom.x.min, tfOut.a))
      /\ tfOut.f = FSub(tfTo.y.min, FMul(tfFrom.y.min, tfOut.d))
      /\ AffineApply(tfOut, Point(tfFrom.x.min, tfFrom.y.min)) = Point(tfTo.x.min, tfTo.y.min)
      /\ AffineApply(tfOut, Point(tfFrom.x.max, tfFrom.y.max)) = Point(tfTo.x.max, tfTo.y.max)
      /\ tfPc = "applied" =>
           /\ tfImg.x = C15_Interpolate(tfFrom.x, tfTo.x, tfPt.x)
           /\ tfImg.y = C15_Interpolate(tfFrom.y, tfTo.y, tfPt.y)

\* the top right corner of the data, mapped into a viewport whose y range is
\* inverted
C15_Witness ==
  /\ tfPc = "applied"
  /\ tfFrom = Bounds(Range(Q(-1, 2), Fl(1)), Range(Q(1, 2), Fl(1)))
  /\ tfTo = Bounds(Range(Fl(80), Fl(920)), Range(Fl(920), Fl(80)))
  /\ tfPt = Point(Fl(1), Fl(1))
  /\ tfImg = Point(Fl(920), Fl(80))

(***************************************************************************)
(* Claims about failing series in Plot::bounds                             *)
(***************************************************************************)
\* the series among the first n whose data_bounds() succeeded, in their order
C12_Remaining(n) == SelectSeq(SubSeq(series, 1, n), C9_IsOk)

\* the left-to-right union_bounds of the bounds of rs; a panic ends the fold
RECURSIVE C12_Fold(_)
C12_Fold(rs) ==
  IF Len(rs) = 1 THEN DataBounds(rs[1].x, rs[1].y)
  ELSE LET front == C12_Fold(SubSeq(rs, 1, Len(rs) - 1))
       IN  IF front = PanicBounds THEN PanicBounds
           ELSE union_bounds(front, DataBounds(rs[Len(rs)].x, rs[Len(rs)].y))

\* C12: if data_bounds of a series fails, Plot::bounds logs the error, skips
\* the series and returns the fold of the remaining series' bounds in their
\* original order; the error is never propagated and never aborts the pass,
\* for any number and position of failing series.
C12_FailingSeriesSkipped ==
  /\ bPc \in {"loop", "returned"} =>
       /\ bLogged = (bIdx - 1) - Len(C12_Remaining(bIdx - 1))
       /\ bAcc = IF C12_Remaining(bIdx - 1) = <<>> THEN None
                 ELSE Some(C12_Fold(C12_Remaining(bIdx - 1)))
  /\ bPc = "returned" =>
       /\ bIdx = Len(series) + 1
       /\ bOut = IF C12_Remaining(Len(series)) = <<>> THEN DefaultBounds
                 ELSE C12_Fold(C12_Remaining(Len(series)))
  /\ bPc = "panicked" =>
       /\ series[bIdx].ok
       /\ C12_Fold(C12_Remaining(bIdx)) = PanicBounds

\* a failing series between two scatter series: the result is the fold of
\* the two scatter series
C12_Witness ==
  /\ bPc = "returned"
  /\ series = << ScatterBounds(Range(Fl(0), Fl(1)), Range(Fl(-2), Fl(3))),
                 Err,
                 ScatterBounds(Range(Fl(3), Fl(10)), Range(Fl(0), Fl(1))) >>
  /\ bLogged = 1
  /\ bOut.x.range = Range(Fl(0), Fl(10))
  /\ bOut.y.range = Range(Fl(-2), Fl(3))

(***************************************************************************)
(* Claims about Axis::iter_ticks                                           *)
(***************************************************************************)
\* C17: with Ticks::Auto and a Categorical range over a label column of
\* length N, iter_ticks yields exactly N Label ticks, the i-th carrying the
\* label at column index i and position i, in column order 0, 1, ..., N-1,
\* and then ends.
C17_CategoricalTicks ==
  (tkPc # "start" /\ tkAxis.ticks.kind = "Auto" /\ tkRange.kind = "Categorical") =>
    /\ Len(tkOut) <= Len(tkRange.labels)
    /\ \A i \in 1..Len(tkOut) :
         /\ tkOut[i].kind = "Label"
         /\ tkOut[i].index = i - 1
         /\ tkOut[i].label = tkRange.labels[i]
         /\ TickPosition(tkOut[i]) = Fl(i - 1)
    /\ tkPc = "done" => Len(tkOut) = Len(tkRange.labels)

\* a column of three labels that are not in order
C17_Witness ==
  /\ tkPc = "done"
  /\ tkAxis.ticks.kind = "Auto"
  /\ tkRange = Categorical(<<30, 10, 20>>)
  /\ Len(tkOut) = 3
  /\ tkOut[2] = TickLabel(10, 1)

(***************************************************************************)
(* Claims about Plot::draw                                                 *)
(***************************************************************************)
C11_NoSeriesSucceeds == \A i \in 1..Len(plAxes) : ~plAxes[i].ok

C11_UnitRange == Continuous(Range(Fl(0), Fl(1)), "Absolute", FALSE, FALSE)

\* C11: a Plot with zero series (or whose every series fails data_bounds)
\* produces, without panicking, DataBounds with x = y = Continuous [0, 1],
\* unit Absolute, margin_min = margin_max = false; with default axes its
\* pretty bounds are exactly [0, 1] x [0, 1] and the derived viewport
\* transform has finite, nonzero scale factors for any viewport of nonzero
\* size.
C11_EmptyPlotDefault ==
  C11_NoSeriesSucceeds =>
    /\ dPc # "panicked"
    /\ dPc \in {"transform", "yticks", "xticks", "series", "done"} =>
         dBounds = DataBounds(C11_UnitRange, C11_UnitRange)
    /\ ( /\ dPc \in {"yticks", "xticks", "series", "done"}
         /\ plX = AxisDefault /\ plY = AxisDefault ) =>
           /\ dPretty = Bounds(Range(Fl(0), Fl(1)), Range(Fl(0), Fl(1)))
           /\ ( /\ ~IsZero(RangeSize(DrawViewport(rdSize).x))
                /\ ~IsZero(RangeSize(DrawViewport(rdSize).y)) ) =>
                  /\ IsFinite(dTransform.affine.a) /\ ~IsZero(dTransform.affine.a)
                  /\ IsFinite(dTransform.affine.d) /\ ~IsZero(dTransform.affine.d)
                  /\ IsFinite(dTransform.affine.e) /\ IsFinite(dTransform.affine.f)

\* a plot without series drawn to a 400 x 200 surface: the viewport is
\* [80, 320] x [120, 80] and the scale factors are 240 and -40
C11_Witness ==
  /\ dPc = "done"
  /\ plAxes = <<>>
  /\ plX = AxisDefault /\ plY = AxisDefault
  /\ rdSize = Size(Fl(400), Fl(200))
  /\ dTransform.affine.a = Fl(240)
  /\ dTransform.affine.d = Fl(-40)

\* C13: a zero-span data range (a single-point series, or a series whose
\* values are all equal) never causes a silent division by zero in the draw
\* pass: the source range handed to Bounds::transform_to never has size 0, so
\* scale = viewport.size / data.size is never computed with a zero divisor.
C13_NoZeroSizeSource ==
  dPc \in {"yticks", "xticks", "series", "done"} =>
    /\ ~IsZero(RangeSize(dFrom.x))
    /\ ~IsZero(RangeSize(dFrom.y))

\* the place of a drawing command in the order of a pass
C16_Rank(c) ==
  CASE c.cmd = "border" -> 0
    [] c.cmd = "ytick" -> 1
    [] c.cmd = "xtick" -> 2
    [] c.cmd = "series" -> 3
    [] c.cmd = "legend" -> 4

C16_SeriesCmds == SelectSeq(scene, LAMBDA c : c.cmd = "series")

\* what C16 says of a state of the pass
C16_State ==
  /\ dCalls.bounds <= 1 /\ dCalls.viewport_transform <= 1
  /\ (\E i \in 1..Len(scene) : scene[i].cmd \in {"ytick", "xtick", "series", "legend"}) =>
       dCalls.bounds = 1 /\ dCalls.viewport_transform = 1
  /\ \A i \in 1..(Len(scene) - 1) : C16_Rank(scene[i]) <= C16_Rank(scene[i + 1])
  /\ \A i \in 1..Len(C16_SeriesCmds) :
       /\ C16_SeriesCmds[i].index = i
       /\ C16_SeriesCmds[i].transform = dTransform
  /\ dPc = "series" => Len(C16_SeriesCmds) = dIdx - 1
  /\ dPc = "done" =>
       /\ dCalls.bounds = 1 /\ dCalls.viewport_transform = 1
       /\ Len(C16_SeriesCmds) = Len(plAxes)
       /\ scene[Len(scene)].cmd = "legend"
       /\ Len(SelectSeq(scene, LAMBDA c : c.cmd = "legend")) = 1

\* what C16 says of a step of the pass
C16_Step ==
  /\ dPc # "idle" => UNCHANGED <<plX, plY, plAxes>>
  /\ dPc \in {"yticks", "xticks", "series"} => UNCHANGED <<dBounds, dTransform>>

\* C16: within one Plot::draw pass, bounds() and viewport_transform() are
\* each evaluated exactly once, before any tick or series is drawn, and every
\* series' draw receives that same transform; the pass emits y-axis ticks,
\* then x-axis ticks, then the series in insertion order, then the legend,
\* and neither Axis nor the series list is mutated during the pass.
C16_OnePassOneTransform == [](C16_State) /\ [][C16_Step]_vars

\* a finished pass over two series, with ticks on both axes
C16_Witness ==
  /\ dPc = "done"
  /\ Len(plAxes) = 2
  /\ \E i \in 1..Len(scene) : scene[i].cmd = "ytick"
  /\ \E i \in 1..Len(scene) : scene[i].cmd = "xtick"
  /\ Len(C16_SeriesCmds) = 2

(***************************************************************************)
(* Claims about the interactive window                                     *)
(***************************************************************************)
\* the drawing commands of exactly one draw pass of the plot shown
C20_OnePass(size) == plot_draw(wPlot.x, wPlot.y, wPlot.axes, size, <<>>)

\* C20: in the interactive window, for every sequence of resumed / Resized /
\* RedrawRequested events, the scene is reset immediately before each
\* Plot::draw, so the scene handed to the renderer always contains the
\* drawing commands of exactly one draw pass and never accumulates commands
\* of an earlier pass.
C20_SceneIsOnePass ==
  /\ wHanded # None =>
       /\ wHanded[1] = C20_OnePass(wSize)
       /\ wHanded[1] = wScene
       /\ Len(SelectSeq(wHanded[1], LAMBDA c : c.cmd = "legend")) = 1
  /\ wTexture # None => \E size \in RenderSizes : wTexture[1] = C20_OnePass(size)

\* a second draw pass, after a resize; the first pass was made for another size
C20_Witness ==
  /\ wStatus = "running"
  /\ wConfig = PixelSize(400, 200)
  /\ ~wStale
  /\ wHanded # None
  /\ wSize = Size(Fl(400), Fl(200))
  /\ wScreen # None /\ wScreen # wHanded
  /\ Len(wPlot.axes) = 2

\* a redraw of an initialised window failed: rendering the scene to the
\* texture failed, or no surface frame could be acquired
C21_RedrawFailed(h) ==
  /\ h.event = "redraw"
  /\ h.rendered = "Err" \/ h.frame \in {"Lost", "Other"}

\* a redraw failed only because no surface frame could be acquired
C21_FrameFailed(h) ==
  /\ h.event = "redraw"
  /\ h.rendered # "Err" /\ h.frame \in {"Lost", "Other"}

\* C21: in the interactive path a failed redraw never crashes or exits the
\* event loop: whether acquiring the surface frame fails (Lost or any other
\* surface error) or rendering the scene to the texture fails, the handler
\* returns normally, the previously presented frame stays on screen, and
\* later events are still processed.
C21_FailedRedrawKeepsLoop ==
  [][C21_RedrawFailed(wLast') => (wStatus' = "running" /\ wScreen' = wScreen)]_vars

\* the part of C21 that the code does keep: a redraw that fails to acquire a
\* surface frame leaves the loop running and the presented frame in place
C21_FrameFailureKeepsLoop ==
  [][C21_FrameFailed(wLast') => (wStatus' = "running" /\ wScreen' = wScreen)]_vars

\* a frame was on screen, a resize made the plot stale, and the redraw that
\* followed could not acquire a frame
C21_FrameFailureWitness ==
  /\ wLast.event = "redraw" /\ wLast.drew /\ wLast.frame = "Lost"
  /\ wScreen # None /\ wScreen # wTexture
  /\ wStatus = "running"

\* the state of the App that the handlers work on
C30_App == <<wInit, wConfig, wStale, wRender, wScene, wTexture, wScreen, wStatus>>

\* a RedrawRequested on an initialised window calls Plot::draw exactly if no
\* draw has happened yet or a Resized with a nonzero size arrived since the
\* last draw; otherwise it changes nothing but the frame on screen, which
\* shows the texture rendered before if a frame could be acquired
C30_RedrawStep ==
  (wInit /\ wLast'.event = "redraw") =>
     /\ wLast'.drew <=> (~wDrawn \/ wResized)
     /\ ~wLast'.drew =>
          /\ UNCHANGED <<wInit, wConfig, wStale, wRender, wScene, wTexture, wStatus>>
          /\ wScreen' = IF wLast'.frame = "Ok" THEN wTexture ELSE wScreen

\* a Resized with width 0 or height 0 changes neither the configuration of
\* the surface nor the stale flag
C30_ZeroResizeStep ==
  \A s \in WindowSizes :
     ((s.width = 0 \/ s.height = 0) /\ WinResized(s)) => UNCHANGED <<wConfig, wStale>>

\* before resumed has initialised the window, an event other than resumed
\* and the request to close does nothing
C30_BeforeInitStep ==
  (~wInit /\ wLast'.event \in {"resized", "redraw", "other"}) => UNCHANGED C30_App

\* a second resumed does not initialise again
C30_SecondResumedStep ==
  (wInit /\ wLast'.event = "resumed") => UNCHANGED C30_App

\* C30: in the interactive window, once initialised, a RedrawRequested event
\* re-runs Plot::draw if and only if no draw has happened yet or a Resized
\* event with width > 0 and height > 0 has arrived since the last draw;
\* otherwise it only re-presents the already rendered texture. A Resized
\* event with width 0 or height 0 changes neither the surface configuration
\* nor the stale flag, events arriving before resumed has initialised the
\* window do nothing, and a second resumed does not re-initialise.
C30_RedrawOnlyWhenStale ==
  [][C30_RedrawStep /\ C30_ZeroResizeStep /\ C30_BeforeInitStep /\ C30_SecondResumedStep]_vars

\* after a draw and a Resized of width 0, a RedrawRequested has presented the
\* texture again without drawing
C30_Witness ==
  /\ wLast.event = "redraw" /\ ~wLast.drew /\ wLast.frame = "Ok"
  /\ wDrawn /\ ~wResized /\ ~wStale
  /\ wScreen = wTexture /\ wTexture # None

(***************************************************************************)
(* Claims about Bounds::shrink_by                                          *)
(***************************************************************************)
\* C22: Bounds::shrink_by(f) shrinks each axis by the fraction f of that
\* axis's own size: its result equals Bounds { x: x.shrink_by(f), y:
\* y.shrink_by(f) }, i.e. it is the exact mirror of Bounds::expand_by
\* (b.shrink_by(f) == b.expand_by(-f)) on both x and y.
C22_ShrinkByIsPerAxisFraction ==
  /\ sbPc \in {"shrunk", "both"} =>
       sbShrunk = Bounds(RangeShrinkBy(sbIn.x, sbFract), RangeShrinkBy(sbIn.y, sbFract))
  /\ sbPc = "both" => sbShrunk = sbExpanded

\* what the code does keep: the x range is shrunk by the fraction of its own
\* size and mirrors expand_by
C22_XIsFraction ==
  /\ sbPc \in {"shrunk", "both"} => sbShrunk.x = RangeShrinkBy(sbIn.x, sbFract)
  /\ sbPc = "both" => sbShrunk.x = sbExpanded.x

(***************************************************************************)
(* Claims about what the unioned data range contains                       *)
(***************************************************************************)
\* every value of the ascending range inner lies in the range outer
C23_Contains(outer, inner) == FLe(outer.min, inner.min) /\ FLe(inner.max, outer.max)

C23_Ascending(r) == FLe(r.min, r.max)

C23_ZeroSize(r) == FEq(RangeSize(r), Fl(0))

\* the Continuous ranges of one axis (get(s) is the x or the y DataRange of a
\* series) of the series whose data_bounds succeeded
C23_AxisRanges(get(_)) ==
  LET ok == SelectSeq(series, C9_IsOk)
  IN  {get(ok[i]).range : i \in {j \in 1..Len(ok) : get(ok[j]).kind = "Continuous"}}

C23_GetX(s) == s.x

C23_GetY(s) == s.y

\* the pair of Continuous ascending operands of the Range::union of one axis
\* in the latest union_bounds call, with the result
C23_Calls ==
  IF ~bCall.called \/ bCall.out = PanicBounds THEN {}
  ELSE { c \in { [a |-> bCall.a.x.range, b |-> bCall.b.x.range, out |-> bCall.out.x.range],
                 [a |-> bCall.a.y.range, b |-> bCall.b.y.range, out |-> bCall.out.y.range] } :
           C23_Ascending(c.a) /\ C23_Ascending(c.b) }

\* the claim as stated: the union contains both operands, zero-size operands
\* included, and the result of Plot::bounds contains the range of every
\* contributing series
C23_UnionContainsAll ==
  /\ \A c \in C23_Calls : C23_Contains(c.out, c.a) /\ C23_Contains(c.out, c.b)
  /\ (bPc = "returned" /\ bOut # PanicBounds) =>
       /\ \A r \in C23_AxisRanges(C23_GetX) : C23_Contains(bOut.x.range, r)
       /\ \A r \in C23_AxisRanges(C23_GetY) : C23_Contains(bOut.y.range, r)

\* C23: for ranges a and b with min <= max, a.union(b) contains every value
\* contained in an operand of nonzero size; a zero-size operand is dropped
\* (the union is the other operand) and need not lie in the result.
\* Consequently the unioned data range computed by Plot::bounds contains the
\* min and max of every contributing series whose range has nonzero size.
C23_UnionContainsNonDegenerate ==
  /\ \A c \in C23_Calls :
       /\ ~C23_ZeroSize(c.a) => C23_Contains(c.out, c.a)
       /\ ~C23_ZeroSize(c.b) => C23_Contains(c.out, c.b)
       /\ C23_ZeroSize(c.a) => c.out = c.b
       /\ (C23_ZeroSize(c.b) /\ ~C23_ZeroSize(c.a)) => c.out = c.a
  /\ (bPc = "returned" /\ bOut # PanicBounds) =>
       /\ \A r \in C23_AxisRanges(C23_GetX) :
            ~C23_ZeroSize(r) => C23_Contains(bOut.x.range, r)
       /\ \A r \in C23_AxisRanges(C23_GetY) :
            ~C23_ZeroSize(r) => C23_Contains(bOut.y.range, r)

\* a single-point series first, then two series that do not contain the
\* point: the bounds are the union of the two, and x = 1 lies outside
C23_Witness ==
  /\ bPc = "returned"
  /\ series = << ScatterBounds(Range(Fl(1), Fl(1)), Range(Fl(3), Fl(3))),
                 ScatterBounds(Range(Fl(3), Fl(10)), Range(Fl(0), Fl(1))),
                 HistogramBounds(Range(Fl(-2), Fl(3)), 3) >>
  /\ bOut.x.range = Range(Fl(-2), Fl(10))
  /\ bCall.called

(***************************************************************************)
(* Claims about pretty_range on a Logarithmic axis                         *)
(***************************************************************************)
\* pretty_range has returned on a Logarithmic axis without explicit min and
\* max, for a Continuous data range with 0 < min < max and a margin >= 0
C24_Case ==
  /\ prPc = "returned"
  /\ axis.scale = "Logarithmic"
  /\ axis.min = None /\ axis.max = None
  /\ FLe(Fl(0), axis.margin)
  /\ prIn.kind = "Continuous"
  /\ FLt(Fl(0), prIn.range.min) /\ FLt(prIn.range.min, prIn.range.max)

\* C24: on a Logarithmic axis with no explicit min/max and a Continuous data
\* range with 0 < min < max, Axis::pretty_range returns endpoints that are
\* still strictly positive for every margin >= 0 and every margin-flag
\* combination, so the log10 applied to the pretty endpoints in
\* viewport_transform is never taken of zero or a negative number.
C24_LogPrettyPositive ==
  C24_Case => (FLt(Fl(0), prOut.min) /\ FLt(Fl(0), prOut.max))

\* what the code does keep: without the margin_min flag both endpoints stay
\* positive; with it the min is lowered by at least 1
C24_LogPrettyWithoutMinFlag ==
  C24_Case =>
    /\ ~prIn.margin_min => (FLt(Fl(0), prOut.min) /\ FLt(Fl(0), prOut.max))
    /\ prIn.margin_min => FLe(prOut.min, FSub(prIn.range.min, Fl(1)))

(***************************************************************************)
(* Claims about the ticks of a histogram                                   *)
(***************************************************************************)
\* the bin edges range.min + i * range.size / bins, i = 0..bins
C25_Edges(range, bins) ==
  [i \in 1..(bins + 1) |->
     TickFixed(FAdd(range.min, FDiv(FMul(Fl(i - 1), RangeSize(range)), Fl(bins))))]

\* the ticks the x axis yields in the pass
C25_XTicks == TicksCollect(iter_ticks(plX, dBounds.x, NiceTickCount))

\* the x ticks of the pass have been drawn for a plot whose only series is a
\* histogram and whose x axis has no explicit min or max
C25_Case ==
  /\ dPc \in {"series", "done"}
  /\ Len(plAxes) = 1
  /\ plAxes[1] = HistogramBounds(plAxes[1].x.range, 3)
  /\ plX.min = None /\ plX.max = None

C25_State ==
  C25_Case =>
    \E bins \in HistogramBins :
      /\ plX.ticks = TicksFixed(bins + 1)
      /\ Len(C25_XTicks) = bins + 1
      /\ C25_XTicks = C25_Edges(plAxes[1].x.range, bins)
      /\ Len(SelectSeq(scene, LAMBDA c : c.cmd = "xtick")) = bins + 1

C25_Step ==
  \A bins \in HistogramBins : PlotHistogram(bins) => plX'.ticks = TicksFixed(bins + 1)

\* C25: for a plot whose only series was added by Plot::histogram(values,
\* bins) with bins >= 1 and whose x axis has no explicit min/max, the x axis
\* uses Fixed(bins + 1) ticks and emits exactly bins + 1 ticks, the i-th
\* equal to the i-th bin edge range.min + i * range.size / bins (the
\* histogram's x range carries no margin on either side); a later
\* Plot::histogram call replaces the tick count with that call's bins + 1.
C25_HistogramTicksAreEdges == [](C25_State) /\ [][C25_Step]_vars

\* a finished pass over a histogram of 4 bins: 5 ticks, the middle one at
\* -2 + 2 * 5 / 4 = 1/2
C25_Witness ==
  /\ dPc = "done"
  /\ C25_Case
  /\ plX.ticks = TicksFixed(5)
  /\ Len(C25_XTicks) = 5
  /\ C25_XTicks[3] = TickFixed(Q(1, 2))

(***************************************************************************)
(* Claims about what the ticks of an axis depend on                        *)
(***************************************************************************)
\* the axis as it is before min, max and margin are set
C26_Plain(a) == [a EXCEPT !.min = None, !.max = None, !.margin = AxisDefault.margin]

\* C26: with Ticks::Auto and a Continuous range, the tick values produced by
\* Axis::iter_ticks depend only on the unioned data range, the axis scale and
\* the requested count: setting or changing axis.min, axis.max or axis.margin
\* leaves the generated tick sequence unchanged (Auto ticks are computed from
\* the raw data range, not from the pretty range), whereas Fixed ticks are
\* computed from the pretty range and do change.
C26_AutoTicksIgnorePretty ==
  (tkPc = "done" /\ tkRange.kind = "Continuous") =>
    /\ tkAxis.ticks.kind = "Auto" =>
         /\ tkOut = TicksCollect(iter_ticks(C26_Plain(tkAxis), tkRange, NiceTickCount))
         /\ tkOut = TicksCollect(TicksIterAuto(nice_ticks(tkRange.range, NiceTickCount),
                                               tkAxis.scale, tkRange.unit))
    /\ (tkAxis.ticks.kind = "Fixed" /\ tkAxis.ticks.count >= 2) =>
         /\ tkOut[1] = TickFixed(pretty_range(tkAxis, tkRange).min)
         /\ tkOut[Len(tkOut)] = TickFixed(pretty_range(tkAxis, tkRange).max)
         /\ tkAxis.min # None => tkOut[1] = TickFixed(tkAxis.min[1])
         /\ tkAxis.max # None => tkOut[Len(tkOut)] = TickFixed(tkAxis.max[1])

\* Auto ticks of the data range [0, 97] on an axis with min -3 and max 20:
\* the ticks are those of the data range, up to 100
C26_Witness ==
  /\ tkPc = "done"
  /\ tkAxis = [AxisDefault EXCEPT !.min = Some(Fl(-3)), !.max = Some(Fl(20))]
  /\ tkRange = FromRange(Range(Fl(0), Fl(97)))
  /\ Len(tkOut) >= 2
  /\ TickPosition(tkOut[1]) = Fl(0)
  /\ FLt(Fl(20), TickPosition(tkOut[Len(tkOut)]))

\* Fixed ticks of the same data range on an axis with min -3 and max 20 do
\* follow the pretty range
C26_FixedWitness ==
  /\ tkPc = "done"
  /\ tkAxis = [AxisDefault EXCEPT !.ticks = TicksFixed(3), !.min = Some(Fl(-3)), !.max = Some(Fl(20))]
  /\ tkRange = FromRange(Range(Fl(0), Fl(97)))
  /\ tkOut = <<TickFixed(Fl(-3)), TickFixed(Q(17, 2)), TickFixed(Fl(20))>>

(***************************************************************************)
(* Claims about ScatterAxes                                                *)
(***************************************************************************)
\* C27: after any sequence of ScatterAxes::hue_from and hue_from_keys calls
\* on a scatter series, hue_keys being set implies hue_column is set
\* (hue_from clears hue_keys, hue_from_keys sets both), so ScatterAxes::draw
\* never unwraps a missing hue column when it has built a hue map.
C27_KeysImplyColumn ==
  /\ scHueKeys # None => scHueColumn # None
  /\ scPc # "panicked"
  /\ scPc = "drawn" =>
       \A k \in 1..Len(scFilled) : scFilled[k].hueRow # 0 => scHueColumn # None

\* a series drawn with a hue map made from keys: hue_from_keys after hue_from
C27_Witness ==
  /\ scPc = "drawn"
  /\ scHueKeys = Some(<<"b", "a">>)
  /\ scHueColumn = Some(<<"a", "b">>)
  /\ Len(scFilled) = 2
  /\ scFilled[1].hueRow = 1

\* C28: in ScatterAxes::draw with a hue column, every drawn point is coloured
\* from the hue-column value of the same row as the point's x and y values,
\* also when earlier rows were skipped because their x or y could not be
\* extracted as a number.
C28_HueOfSameRow ==
  scPc = "drawn" =>
    \A k \in 1..Len(scFilled) :
      scFilled[k].hueRow # 0 => scFilled[k].hueRow = scFilled[k].row

\* what the code does keep: the k-th point drawn is coloured from row k, which
\* is its own row if no earlier row was skipped
C28_HueOfSameRowIfNoneSkipped ==
  scPc = "drawn" =>
    \A k \in 1..Len(scFilled) :
      scFilled[k].hueRow # 0 =>
        /\ scFilled[k].hueRow = k
        /\ (\A i \in 1..scFilled[k].row : scX[i].ok /\ scY[i].ok) =>
             scFilled[k].hueRow = scFilled[k].row

(***************************************************************************)
(* Claims about drawing a series whose data_bounds fails                   *)
(***************************************************************************)
\* the series of the plot whose data_bounds succeeded
C29_Others == SelectSeq(plAxes, C9_IsOk)

\* the bounds derived from them, the default if there are none
C29_Bounds == IF C29_Others = <<>> THEN DefaultBounds ELSE C12_Fold(C29_Others)

\* the series the pass has called draw on, with the transform each was given
C29_Drawn == SelectSeq(scene, LAMBDA c : c.cmd = "series")

\* C29: a series whose data_bounds fails is excluded only from the bounds
\* union: in the same draw pass Plot::draw still invokes draw on that series,
\* with the transform derived from the other series (or from the default
\* [0,1] x [0,1] bounds if every series failed).
C29_FailedSeriesStillDrawn ==
  (dPc = "done" /\ \E i \in 1..Len(plAxes) : ~plAxes[i].ok) =>
    /\ dBounds = C29_Bounds
    /\ Len(C29_Drawn) = Len(plAxes)
    /\ \A i \in 1..Len(plAxes) :
         /\ C29_Drawn[i].index = i
         /\ C29_Drawn[i].transform =
              viewport_transform(plX, plY, C29_Bounds, DrawViewport(rdSize))

\* a failing series drawn before a scatter series, with the transform made
\* from the bounds of the scatter series alone
C29_Witness ==
  /\ dPc = "done"
  /\ plAxes = << Err, ScatterBounds(Range(Fl(0), Fl(1)), Range(Fl(-2), Fl(3))) >>
  /\ dBounds = DataBounds(FromRange(Range(Fl(0), Fl(1))), FromRange(Range(Fl(-2), Fl(3))))
  /\ Len(C29_Drawn) = 2
  /\ C29_Drawn[1].index = 1 /\ C29_Drawn[1].transform = dTransform

====
